---------------------------- MODULE Spec2Model ----------------------------
(***************************************************************************)
(* A model of the GSEA engine of pathways-analysis: the worker pool of     *)
(* methods/gsea/multiprocess.py and the scoring, significance,             *)
(* normalisation and FDR routines of methods/gsea/gsea.py.                 *)
(*                                                                         *)
(* Numbers.  Python floats are modelled as exact rationals <<n, d>> in     *)
(* lowest terms with d > 0; <<1, 0>> and <<-1, 0>> stand for +inf and -inf *)
(* (numpy's quotient by a zero mean).  Rounding is not modelled.           *)
(***************************************************************************)
EXTENDS Integers, Sequences, FiniteSets, TLC

VARIABLES
    \* ---- ScoreDistribution built from a list and iterated
    sd_pc, sd_scores, sd_dist, sd_out, sd_len,
    \* ---- calculate_enrichment_score on its own
    es_pc, es_ranked_list, es_gene_set, es_weight, es_result,
    \* ---- analyze_gene_set after scoring (significance, normalisation, store)
    an_pc, an_normalize_es, an_score, an_null, an_gene_set, an_p, an_norm, an_result,
    \* ---- compute_fdr on an analysed collection
    fdr_pc, fdr_sets, fdr_exc, fdr_assigned,
    \* ---- Pool.map (multiprocess.py)
    target,          \* what func is: "func" (any function) or "analyze_gene_set"
    processes,       \* Pool.processes
    cores,           \* what available_cores() returns
    func,            \* item |-> outcome of func(item, *shared_args)
    iterable,        \* the items given to map
    pool_pc,         \* where the caller of map is
    next_item,       \* index of the next item of the caller's loop
    queue,           \* the task queue
    progress_queue,  \* the queue of the progress bar process
    results,         \* the manager's list (the list returned when processes = 1)
    completed,       \* ghost: per entry of results, the index of its task
    started,         \* workers whose start() was called
    joined,          \* workers whose join() returned
    w_pc,            \* per worker: where it is
    w_data,          \* per worker: the local `data`
    w_task,          \* ghost: per worker, the index of the task held in data
    w_stops,         \* ghost: per worker, the STOPs it read
    bar_pc,          \* where the progress bar process is
    bar_n,           \* the bar's count
    \* ---- GeneralisedGSEA.run (gsea.py)
    run_pc,          \* where run is
    experiment,      \* case.genes, control.genes and the metric value of each gene
    loaded_gene_sets, \* history: the gene sets as they were when run was called
    gene_sets,       \* self.gene_sets: the GeneSet objects of the database
    config,          \* min_max, permutations, normalize_es, ranked_list_weight, descending_sort
    trimmed,         \* the local gene_sets of run: indices of the surviving objects
    run_ranked_list,     \* the local ranked_list of run
    shuffler,        \* self.shuffler
    sorted_gene_sets, \* the local sorted_gene_sets of run
    \* ---- GeneSet.restrict_to_genes, called repeatedly on one gene set
    rs_pc, rs_gene_set, rs_created, rs_before, rs_universe, rs_removed, rs_calls,
    \* ---- trim_gene_sets called twice on the same gene sets and experiment
    tt_pc, tt_gene_sets, tt_loaded, tt_genes, tt_min_max, tt_first, tt_after_first, tt_second, tt_removed,
    \* ---- PhenotypeShuffler: construction and permute_and_score
    ph_pc, ph_case, ph_control, ph_all_samples, ph_cases_cnt, ph_result,
    \* ---- GeneShuffler: construction and repeated permute_and_score
    gs_pc, gs_experiment, gs_descending_sort, gs_real, gs_gene_labels, gs_permutation, gs_labels_map, gs_ranked, gs_calls,
    \* ---- enrichments_for_permuted_labels run by the worker processes
    pm_pc, pm_class, pm_permutations, pm_gene_sets, pm_queue, pm_task, pm_round, pm_es_null, pm_target, pm_set_calls, pm_samples, pm_used, pm_returned

vars == <<sd_pc, sd_scores, sd_dist, sd_out, sd_len,
          es_pc, es_ranked_list, es_gene_set, es_weight, es_result,
          an_pc, an_normalize_es, an_score, an_null, an_gene_set, an_p,
          an_norm, an_result, fdr_pc, fdr_sets, fdr_exc, fdr_assigned,
          target, processes, cores, func, iterable, pool_pc, next_item, queue,
          progress_queue, results, completed, started, joined, w_pc, w_data,
          w_task, w_stops, bar_pc, bar_n,
          run_pc, experiment, loaded_gene_sets, gene_sets, config, trimmed, run_ranked_list,
          shuffler, sorted_gene_sets,
          rs_pc, rs_gene_set, rs_created, rs_before, rs_universe, rs_removed, rs_calls,
          tt_pc, tt_gene_sets, tt_loaded, tt_genes, tt_min_max, tt_first, tt_after_first, tt_second, tt_removed,
          ph_pc, ph_case, ph_control, ph_all_samples, ph_cases_cnt, ph_result,
          gs_pc, gs_experiment, gs_descending_sort, gs_real, gs_gene_labels, gs_permutation, gs_labels_map, gs_ranked, gs_calls,
          pm_pc, pm_class, pm_permutations, pm_gene_sets, pm_queue, pm_task, pm_round, pm_es_null, pm_target, pm_set_calls, pm_samples, pm_used, pm_returned>>


sd_vars == <<sd_pc, sd_scores, sd_dist, sd_out, sd_len>>
es_vars == <<es_pc, es_ranked_list, es_gene_set, es_weight, es_result>>
an_vars == <<an_pc, an_normalize_es, an_score, an_null, an_gene_set, an_p, an_norm, an_result>>
fdr_vars == <<fdr_pc, fdr_sets, fdr_exc, fdr_assigned>>
pool_vars == <<target, processes, cores, func, iterable, pool_pc, next_item, queue, progress_queue, results, completed, started, joined, w_pc, w_data, w_task, w_stops, bar_pc, bar_n>>
run_vars == <<run_pc, experiment, loaded_gene_sets, gene_sets, config, trimmed, run_ranked_list, shuffler, sorted_gene_sets>>
rs_vars == <<rs_pc, rs_gene_set, rs_created, rs_before, rs_universe, rs_removed, rs_calls>>
tt_vars == <<tt_pc, tt_gene_sets, tt_loaded, tt_genes, tt_min_max, tt_first, tt_after_first, tt_second, tt_removed>>
ph_vars == <<ph_pc, ph_case, ph_control, ph_all_samples, ph_cases_cnt, ph_result>>
gs_vars == <<gs_pc, gs_experiment, gs_descending_sort, gs_real, gs_gene_labels, gs_permutation, gs_labels_map, gs_ranked, gs_calls>>
pm_vars == <<pm_pc, pm_class, pm_permutations, pm_gene_sets, pm_queue, pm_task, pm_round, pm_es_null, pm_target, pm_set_calls, pm_samples, pm_used, pm_returned>>

---------------------------------------------------------------------------
\* Bounds of the model.

\* genes of the expression dataset (length of a ranked list)
MaxGenes == 3
\* largest enrichment weighting exponent p tried
MaxWeight == 2
\* permutation rounds (length of a null distribution)
MaxPermutations == 2
\* largest number of worker processes (and of cores)
MaxProcesses == 2
\* largest number of items given to Pool.map
MaxItems == 2
\* gene sets of the database given to run
MaxGeneSets == 2
\* genes of the dataset given to create_ranked_gene_list on its own
MaxRankGenes == 3
\* scores of the list a ScoreDistribution is built from
MaxScores == 3
\* genes of the dataset, and gene sets, given to trim_gene_sets on its own
MaxTrimGenes == 2
MaxTrimSets == 2
\* gene sets of a collection handed to compute_fdr, and the scores of each of
\* their null distributions
MaxFdrSets == 2
MaxFdrPermutations == 1
\* genes a gene set and a universe are drawn from, and calls of
\* restrict_to_genes made on one gene set
MaxRestrictGenes == 3
MaxRestrictCalls == 2
\* samples of an experiment given to PhenotypeShuffler (case and control
\* together)
MaxSamples == 3
\* genes of the experiment a GeneShuffler is made for, and calls of its
\* permute_and_score
MaxShuffleGenes == 3
MaxShuffleCalls == 2
\* worker processes, gene sets and permutations of the runs of
\* enrichments_for_permuted_labels
MaxPermuteWorkers == 2
MaxPermuteSets == 2
MaxPermuteRounds == 2

---------------------------------------------------------------------------
\* Generic helpers.

Abs(x) == IF x < 0 THEN -x ELSE x

Range(s) == {s[i] : i \in 1..Len(s)}

RECURSIVE GCD(_, _)
GCD(a, b) == IF b = 0 THEN a ELSE GCD(b, a % b)

RECURSIVE Pow(_, _)
Pow(x, k) == IF k = 0 THEN 1 ELSE x * Pow(x, k - 1)

RECURSIVE SumSeq(_)
SumSeq(s) == IF s = <<>> THEN 0 ELSE s[1] + SumSeq(Tail(s))

\* sequences over S of length at most n
SeqsUpTo(S, n) == UNION {[1..k -> S] : k \in 0..n}

\* The rational n/d (d # 0) in lowest terms with a positive denominator.
Rat(n, d) ==
    LET s == IF d < 0 THEN -1 ELSE 1
        g == GCD(Abs(n), Abs(d))
    IN  <<(s * n) \div g, (s * d) \div g>>

Zero == Rat(0, 1)
PlusInf == <<1, 0>>
MinusInf == <<-1, 0>>

IsPos(x) == x[1] > 0
IsNeg(x) == x[1] < 0
IsZero(x) == x[1] = 0
RatAbs(x) == <<Abs(x[1]), x[2]>>
\* a < b for rationals (and the two infinities)
RatLt(a, b) == a[1] * b[2] < b[1] * a[2]

\* x / m for a finite x and a finite m (Python's x / m with m a numpy float:
\* a zero m gives an infinity of x's sign, not an exception).
RatDiv(x, m) ==
    IF m[1] = 0
    THEN (IF x[1] > 0 THEN PlusInf ELSE IF x[1] < 0 THEN MinusInf ELSE Zero)
    ELSE Rat(x[1] * m[2], x[2] * m[1])

RECURSIVE RatSum(_)
RatSum(s) ==
    IF s = <<>> THEN Zero
    ELSE LET r == RatSum(Tail(s))
         IN  Rat(s[1][1] * r[2] + r[1] * s[1][2], s[1][2] * r[2])

\* np.mean of a non-empty list of finite scores
Mean(s) == LET t == RatSum(s) IN Rat(t[1], t[2] * Len(s))

---------------------------------------------------------------------------
\* ScoreDistribution (gsea.py)

\* ScoreDistribution(): two empty buckets
EmptyDistribution == [negative_scores |-> <<>>, positive_scores |-> <<>>]

\* (variant) append without its else branch: a score of zero is not stored
DistAppendNonZero(dist, score, zero_to) ==
    IF IsPos(score)
    THEN [dist EXCEPT !.positive_scores = Append(@, score)]
    ELSE IF IsNeg(score)
    THEN [dist EXCEPT !.negative_scores = Append(@, score)]
    ELSE dist

\* ScoreDistribution.append; `zero_to` is the bucket random.choice picks for
\* a score of exactly zero ("positive" or "negative").
DistAppend(dist, score, zero_to) ==
    IF IsPos(score)
    THEN [dist EXCEPT !.positive_scores = Append(@, score)]
    ELSE IF IsNeg(score)
    THEN [dist EXCEPT !.negative_scores = Append(@, score)]
    ELSE IF zero_to = "positive"
         THEN [dist EXCEPT !.positive_scores = Append(@, score)]
         ELSE [dist EXCEPT !.negative_scores = Append(@, score)]

\* ScoreDistribution(scores): append of every score in turn, from index i on;
\* zero_to[i] is the bucket random.choice picks for the i-th score
RECURSIVE DistFrom(_, _, _, _)
DistFrom(scores, i, zero_to, acc) ==
    IF i > Len(scores) THEN acc
    ELSE DistFrom(scores, i + 1, zero_to, DistAppend(acc, scores[i], zero_to[i]))

\* ScoreDistribution.__iter__: chain(negative_scores, positive_scores)
DistIter(dist) == dist.negative_scores \o dist.positive_scores

\* ScoreDistribution.__len__
DistLen(dist) == Len(dist.positive_scores) + Len(dist.negative_scores)

\* is_more_extreme(x, enrichment): abs(x) > abs(enrichment)
is_more_extreme(x, enrichment) == RatLt(RatAbs(enrichment), RatAbs(x))

---------------------------------------------------------------------------
\* Gene and GeneSet (models.py, signatures.py)

\* Python's None
None == <<>>

\* Genes are named 1, 2, ... in the order Gene(name) first sees them; Gene.id is
\* len(instances) - 1 taken before the new gene is stored.
GeneId(gene) == gene - 2

\* GeneSet.__init__; the per-run annotations do not exist yet (None here).
GeneSet(name, genes) ==
    [name |-> name, genes |-> genes, gene_ids |-> {GeneId(g) : g \in genes},
     enrichment |-> None, nominal_p_value |-> None,
     null_distribution |-> None, fdr |-> None]

\* GeneSet.__contains__
Contains(gene_set, gene) == GeneId(gene) \in gene_set.gene_ids

\* GeneSet.__len__
SetLen(gene_set) == Cardinality(gene_set.genes)

---------------------------------------------------------------------------
\* GeneralisedGSEA.calculate_enrichment_score (gsea.py)

\* What a call produced: a returned value, or the exception it raised.
Returned(v, warned) == [exc |-> "", value |-> v, warned |-> warned]
Raised(e) == [exc |-> e, value |-> None, warned |-> FALSE]

\* hit_denominator: the sum of abs(pow(rank, p)) over the listed genes of the set
RECURSIVE HitDenominator(_, _, _)
HitDenominator(ranked_list, gene_set, p) ==
    IF ranked_list = <<>> THEN 0
    ELSE (IF Contains(gene_set, ranked_list[1][1])
          THEN Abs(Pow(ranked_list[1][2], p)) ELSE 0)
         + HitDenominator(Tail(ranked_list), gene_set, p)

\* The walk.  With hd = hit_denominator and m = n - nh, after i steps
\*   running_sum_statistic_hits   =  hits / hd
\*   running_sum_statistic_misses = -misses / m      (the code subtracts)
\*   diff = hits/hd - (-misses/m) = (hits * m + misses * hd) / (hd * m)
\* The numerators over the common denominator hd * m are kept; best is the
\* numerator of maximum_deviation.
RECURSIVE Walk(_, _, _, _, _, _, _, _)
Walk(ranked_list, gene_set, p, hd, m, hits, misses, best) ==
    IF ranked_list = <<>> THEN best
    ELSE LET hit == Contains(gene_set, ranked_list[1][1])
             h2 == IF hit THEN hits + Pow(ranked_list[1][2], p) ELSE hits
             m2 == IF hit THEN misses ELSE misses + 1
             diff == h2 * m + m2 * hd
             b2 == IF Abs(diff) > Abs(best) THEN diff ELSE best
         IN  Walk(Tail(ranked_list), gene_set, p, hd, m, h2, m2, b2)

\* (variant) the routine without its `if not hit_denominator` branch: the
\* first hit divides by zero; with no hit at all the walk ends at 1
calculate_enrichment_score_unguarded(ranked_list, gene_set, p) ==
    LET n == Len(ranked_list)
        nh == SetLen(gene_set)
        hd == HitDenominator(ranked_list, gene_set, p)
    IN  IF n - nh = 0 THEN Raised("ZeroDivisionError")
        ELSE IF hd = 0
        THEN (IF \E i \in DOMAIN ranked_list : Contains(gene_set, ranked_list[i][1])
              THEN Raised("ZeroDivisionError")
              ELSE Returned(Rat(n, n - nh), FALSE))
        ELSE Returned(Rat(Walk(ranked_list, gene_set, p, hd, n - nh, 0, 0, 0),
                          hd * (n - nh)), FALSE)

calculate_enrichment_score(ranked_list, gene_set, p) ==
    LET n == Len(ranked_list)
        nh == SetLen(gene_set)
        hd == HitDenominator(ranked_list, gene_set, p)
    IN  IF n - nh = 0 THEN Raised("ZeroDivisionError")     \* decrement = 1 / (n - nh)
        ELSE IF hd = 0 THEN Returned(Zero, TRUE)            \* warn(...); return 0
        ELSE Returned(Rat(Walk(ranked_list, gene_set, p, hd, n - nh, 0, 0, 0),
                          hd * (n - nh)), FALSE)

---------------------------------------------------------------------------
\* GeneralisedGSEA.estimate_significance_level (gsea.py)

\* (variant) the positive bucket also for a score of zero
SignificanceBucketNonNegative(enrichment_score, null_distribution) ==
    IF ~IsNeg(enrichment_score)
    THEN null_distribution.positive_scores
    ELSE null_distribution.negative_scores

\* the bucket the sign of the score selects
SignificanceBucket(enrichment_score, null_distribution) ==
    IF IsPos(enrichment_score)
    THEN null_distribution.positive_scores
    ELSE null_distribution.negative_scores

\* hits: the scores of `null` whose abs() exceeds abs_score
SignificanceHits(null, enrichment_score) ==
    Cardinality({i \in 1..Len(null) :
                    RatLt(RatAbs(enrichment_score), RatAbs(null[i]))})

estimate_significance_level(enrichment_score, null_distribution) ==
    LET null == SignificanceBucket(enrichment_score, null_distribution)
        hits == SignificanceHits(null, enrichment_score)
    IN  IF null = <<>> THEN Zero ELSE Rat(hits, Len(null))

---------------------------------------------------------------------------
\* GeneralisedGSEA.normalize_enrichment (gsea.py)

\* mean_positive: np.mean(null_positive) if null_positive else None
MeanPositive(null_distribution) ==
    IF null_distribution.positive_scores = <<>> THEN None
    ELSE Mean(null_distribution.positive_scores)

\* (variant) mean_negative_abs without the abs()
MeanNegativeSigned(null_distribution) ==
    IF null_distribution.negative_scores = <<>> THEN None
    ELSE LET mean_negative == Mean(null_distribution.negative_scores)
         IN  IF IsZero(mean_negative) THEN None ELSE mean_negative

\* mean_negative_abs: abs(mean_negative) if mean_negative else None, where a
\* mean of zero is as falsy as None
MeanNegativeAbs(null_distribution) ==
    IF null_distribution.negative_scores = <<>> THEN None
    ELSE LET mean_negative == Mean(null_distribution.negative_scores)
         IN  IF IsZero(mean_negative) THEN None ELSE RatAbs(mean_negative)

\* the inner function normalized(score); a division by None is a TypeError
normalized(score, mean_positive, mean_negative_abs) ==
    IF IsPos(score)
    THEN (IF mean_positive = None THEN Raised("TypeError")
          ELSE Returned(RatDiv(score, mean_positive), FALSE))
    ELSE IF IsNeg(score)
    THEN (IF mean_negative_abs = None THEN Raised("TypeError")
          ELSE Returned(RatDiv(score, mean_negative_abs), FALSE))
    ELSE Returned(Zero, FALSE)

\* ScoreDistribution(normalized(raw_score) for raw_score in null_distribution);
\* zero_to[i] is the bucket random.choice gives the i-th score when it is zero.
RECURSIVE NormalizedNull(_, _, _, _, _, _)
NormalizedNull(scores, i, zero_to, mean_positive, mean_negative_abs, acc) ==
    IF i > Len(scores) THEN Returned(acc, FALSE)
    ELSE LET r == normalized(scores[i], mean_positive, mean_negative_abs)
         IN  IF r.exc # "" THEN r
             ELSE NormalizedNull(scores, i + 1, zero_to, mean_positive,
                                 mean_negative_abs,
                                 DistAppend(acc, r.value, zero_to[i]))

\* returns the pair <<normalized enrichment, normalized null distribution>>
normalize_enrichment(normalize_es, enrichment_score, null_distribution, zero_to) ==
    IF ~normalize_es
    THEN Returned(<<enrichment_score, null_distribution>>, FALSE)
    ELSE LET mean_positive == MeanPositive(null_distribution)
             mean_negative_abs == MeanNegativeAbs(null_distribution)
             normalized_null ==
                 NormalizedNull(DistIter(null_distribution), 1, zero_to,
                                mean_positive, mean_negative_abs,
                                EmptyDistribution)
             score == normalized(enrichment_score, mean_positive,
                                 mean_negative_abs)
         IN  IF normalized_null.exc # "" THEN normalized_null
             ELSE IF score.exc # "" THEN score
             ELSE Returned(<<score.value, normalized_null.value>>, FALSE)

---------------------------------------------------------------------------
\* GeneralisedGSEA.analyze_gene_set (gsea.py), from the point where the
\* enrichment score and the null distribution of the gene set are known:
\* nominal p-value, normalisation and the three assignments to the gene set.

\* the value stored as gene_set.null_distribution
StoredNullDistribution(null_distribution, normalized_null_distribution) ==
    null_distribution

\* lines 278-289: normalisation, then the three assignments
NormalizeAndStore(gene_set, enrichment_score, null_distribution, nominal_p_value, normalize_es, zero_to) ==
    LET norm == normalize_enrichment(normalize_es, enrichment_score,
                                     null_distribution, zero_to)
    IN  IF norm.exc # "" THEN Raised(norm.exc)
        ELSE Returned(
                 [gene_set EXCEPT
                     !.enrichment = norm.value[1],
                     !.nominal_p_value = nominal_p_value,
                     !.null_distribution =
                         StoredNullDistribution(null_distribution,
                                                norm.value[2])],
                 FALSE)

analyze_gene_set(gene_set, enrichment_score, null_distribution, normalize_es, zero_to) ==
    NormalizeAndStore(gene_set, enrichment_score, null_distribution,
                      estimate_significance_level(enrichment_score,
                                                  null_distribution),
                      normalize_es, zero_to)

---------------------------------------------------------------------------
\* GeneralisedGSEA.compute_fdr (gsea.py)

\* (variant) the loop without its `if other_set == gene_set: continue`
OthersWithSelf(analyzed_gene_sets, i) == 1..Len(analyzed_gene_sets)

\* the other sets of the loop: every index but that of gene_set itself
Others(analyzed_gene_sets, i) == (1..Len(analyzed_gene_sets)) \ {i}

\* number of scores of one null distribution more extreme than the enrichment
MoreExtremeIn(null_distribution, normalized_enrichment) ==
    LET scores == DistIter(null_distribution)
    IN  Cardinality({k \in 1..Len(scores) :
                        is_more_extreme(scores[k], normalized_enrichment)})

RECURSIVE SumOver(_, _)
SumOver(f, S) ==
    IF S = {} THEN 0
    ELSE LET x == CHOOSE y \in S : TRUE IN f[x] + SumOver(f, S \ {x})

more_extreme_random(analyzed_gene_sets, i) ==
    SumOver([j \in Others(analyzed_gene_sets, i) |->
                MoreExtremeIn(analyzed_gene_sets[j].null_distribution,
                              analyzed_gene_sets[i].enrichment)],
            Others(analyzed_gene_sets, i))

all_random(analyzed_gene_sets, i) ==
    SumOver([j \in Others(analyzed_gene_sets, i) |->
                DistLen(analyzed_gene_sets[j].null_distribution)],
            Others(analyzed_gene_sets, i))

more_extreme_observed(analyzed_gene_sets, i) ==
    Cardinality({j \in Others(analyzed_gene_sets, i) :
                    is_more_extreme(analyzed_gene_sets[j].enrichment,
                                    analyzed_gene_sets[i].enrichment)})

observations(analyzed_gene_sets, i) ==
    Cardinality(Others(analyzed_gene_sets, i))

\* (variant) the loop body without the `if not more_extreme_random` short cut
FdrValueNoShortCut(mer, all, meo, obs) ==
    IF all = 0 \/ obs = 0 THEN Raised("ZeroDivisionError")
    ELSE IF meo = 0 THEN Returned(None, FALSE)
    ELSE Returned(Rat(mer * obs, all * meo), FALSE)

\* (variant) the last line without its `if denominator else None`
FdrValueNoNoneGuard(mer, all, meo, obs) ==
    IF mer = 0 THEN Returned(Zero, FALSE)
    ELSE IF all = 0 \/ obs = 0 \/ meo = 0 THEN Raised("ZeroDivisionError")
    ELSE Returned(Rat(mer * obs, all * meo), FALSE)

\* the end of the loop body: the short cut, the two quotients and the
\* assignment; a quotient by zero is a ZeroDivisionError
FdrValue(mer, all, meo, obs) ==
    IF mer = 0 THEN Returned(Zero, FALSE)
    ELSE IF all = 0 \/ obs = 0 THEN Raised("ZeroDivisionError")
    ELSE IF meo = 0 THEN Returned(None, FALSE)
    ELSE Returned(Rat(mer * obs, all * meo), FALSE)

FdrOf(analyzed_gene_sets, i) ==
    FdrValue(more_extreme_random(analyzed_gene_sets, i),
             all_random(analyzed_gene_sets, i),
             more_extreme_observed(analyzed_gene_sets, i),
             observations(analyzed_gene_sets, i))

\* The whole loop.  "unset" marks a gene set the loop did not reach because an
\* earlier iteration raised.
compute_fdr(analyzed_gene_sets) ==
    LET idx == 1..Len(analyzed_gene_sets)
        bad == {i \in idx : FdrOf(analyzed_gene_sets, i).exc # ""}
        reached(i) == \A j \in bad : i < j
    IN  [exc |-> IF bad = {} THEN ""
                 ELSE FdrOf(analyzed_gene_sets, CHOOSE i \in bad : TRUE).exc,
         sets |-> [i \in idx |->
                     IF reached(i)
                     THEN [analyzed_gene_sets[i] EXCEPT
                              !.fdr = FdrOf(analyzed_gene_sets, i).value]
                     ELSE analyzed_gene_sets[i]],
         assigned |-> {i \in idx : reached(i)}]

---------------------------------------------------------------------------
\* GeneSet.restrict_to_genes (signatures.py), trim_gene_sets and
\* create_ranked_gene_list (gsea.py), GeneShuffler (shufflers.py)

\* (variant) restrict_to_genes without `self.gene_ids.discard(gene.id)`
restrict_to_genes_keeping_ids(gene_set, genes) ==
    LET excessive_genes == gene_set.genes \ genes
    IN  [gene_set |-> [gene_set EXCEPT !.genes = @ \ excessive_genes],
         removed |-> excessive_genes]

\* restrict_to_genes: the gene set afterwards, and the set it returns
restrict_to_genes(gene_set, genes) ==
    LET excessive_genes == gene_set.genes \ genes
    IN  [gene_set |-> [gene_set EXCEPT
                          !.genes = @ \ excessive_genes,
                          !.gene_ids = @ \ {GeneId(g) : g \in excessive_genes}],
         removed |-> excessive_genes]

\* (variant) trim_gene_sets with `min_genes <= len(gene_set) < max_genes`
trim_gene_sets_below_max(sets, genes, min_max) ==
    LET restricted == [i \in DOMAIN sets |-> restrict_to_genes(sets[i], genes).gene_set]
        kept == {i \in DOMAIN sets :
                    /\ min_max[1] <= SetLen(restricted[i])
                    /\ SetLen(restricted[i]) < min_max[2]}
        order == [k \in 1..Cardinality(kept) |->
                     CHOOSE i \in kept : Cardinality({j \in kept : j < i}) = k - 1]
    IN  [exc |-> IF \E i \in DOMAIN sets : SetLen(restricted[i]) > Cardinality(genes)
                 THEN "AssertionError" ELSE "",
         gene_sets |-> restricted,
         trimmed |-> order]

\* (variant) trim_gene_sets with len(gene_set) taken before restrict_to_genes
trim_gene_sets_sized_before(sets, genes, min_max) ==
    LET restricted == [i \in DOMAIN sets |-> restrict_to_genes(sets[i], genes).gene_set]
        kept == {i \in DOMAIN sets :
                    /\ min_max[1] <= SetLen(sets[i])
                    /\ SetLen(sets[i]) <= min_max[2]}
        order == [k \in 1..Cardinality(kept) |->
                     CHOOSE i \in kept : Cardinality({j \in kept : j < i}) = k - 1]
    IN  [exc |-> IF \E i \in DOMAIN sets : SetLen(restricted[i]) > Cardinality(genes)
                 THEN "AssertionError" ELSE "",
         gene_sets |-> restricted,
         trimmed |-> order]

\* trim_gene_sets: every object restricted in place; the list returned holds
\* (the indices of) those within min_max; `assert False` for a set larger than
\* the dataset
trim_gene_sets(sets, genes, min_max) ==
    LET restricted == [i \in DOMAIN sets |-> restrict_to_genes(sets[i], genes).gene_set]
        kept == {i \in DOMAIN sets :
                    /\ min_max[1] <= SetLen(restricted[i])
                    /\ SetLen(restricted[i]) <= min_max[2]}
        order == [k \in 1..Cardinality(kept) |->
                     CHOOSE i \in kept : Cardinality({j \in kept : j < i}) = k - 1]
    IN  [exc |-> IF \E i \in DOMAIN sets : SetLen(restricted[i]) > Cardinality(genes)
                 THEN "AssertionError" ELSE "",
         gene_sets |-> restricted,
         trimmed |-> order]

\* (variant) sorted(ranked, key=itemgetter(1)) without reverse=
SortRankedAscending(ranked, descending_sort) ==
    LET place(i) == 1 + Cardinality({j \in DOMAIN ranked : ranked[j][2] < ranked[i][2]})
                      + Cardinality({j \in DOMAIN ranked :
                                        j < i /\ ranked[j][2] = ranked[i][2]})
    IN  [k \in DOMAIN ranked |-> ranked[CHOOSE i \in DOMAIN ranked : place(i) = k]]

\* sorted(ranked, key=itemgetter(1), reverse=descending_sort): a stable sort
SortRanked(ranked, descending_sort) ==
    LET before(a, b) == IF descending_sort THEN ranked[a][2] > ranked[b][2]
                        ELSE ranked[a][2] < ranked[b][2]
        place(i) == 1 + Cardinality({j \in DOMAIN ranked : before(j, i)})
                      + Cardinality({j \in DOMAIN ranked :
                                        j < i /\ ranked[j][2] = ranked[i][2]})
    IN  [k \in DOMAIN ranked |-> ranked[CHOOSE i \in DOMAIN ranked : place(i) = k]]

\* create_ranked_gene_list; labels_map is None or a function of the genes;
\* the metric value of a gene stands for calculate_rank(case.of_gene(gene),
\* control.of_gene(gene))
create_ranked_gene_list(exp, labels_map, descending_sort) ==
    IF Range(exp.case_genes) # Range(exp.control_genes)
    THEN Raised("AssertionError")
    ELSE Returned(
             SortRanked([i \in DOMAIN exp.case_genes |->
                            <<IF labels_map = None
                              THEN exp.case_genes[i]
                              ELSE labels_map[exp.case_genes[i]],
                              exp.metric[exp.case_genes[i]]>>],
                        descending_sort),
             FALSE)

\* what shuffle(self.permutation) can leave in self.permutation, as the
\* labels_map dict(zip(self.gene_labels, self.permutation))
LabelMaps(exp) ==
    LET G == Range(exp.control_genes)
    IN  {f \in [G -> G] : \A a, b \in G : f[a] = f[b] => a = b}

\* GeneShuffler.permute_and_score for one outcome of the shuffle
permute_and_score(exp, cfg, gene_set, labels_map) ==
    LET ranked == create_ranked_gene_list(exp, labels_map, cfg.descending_sort)
    IN  IF ranked.exc # "" THEN ranked
        ELSE calculate_enrichment_score(ranked.value, gene_set, cfg.ranked_list_weight)

\* enrichments_for_permuted_labels: every null distribution `rounds`
\* permutations can give.  It is used once the score of the gene set on the
\* unpermuted list has returned; a permuted list has the same n and nh, so
\* permute_and_score returns as well.
RECURSIVE NullDistributions(_, _, _, _)
NullDistributions(exp, cfg, gene_set, rounds) ==
    IF rounds = 0 THEN {EmptyDistribution}
    ELSE {DistAppend(d, permute_and_score(exp, cfg, gene_set, m).value, z) :
             d \in NullDistributions(exp, cfg, gene_set, rounds - 1),
             m \in LabelMaps(exp),
             z \in {"positive", "negative"}}

\* (variant) a shuffle that draws every place anew from the elements
ShufflesWithReplacement(list) == [DOMAIN list -> Range(list)]

\* random.shuffle(list): the orders the list can be left in (the call itself
\* returns None)
Shuffles(list) ==
    {[i \in DOMAIN list |-> list[order[i]]] :
        order \in {f \in [DOMAIN list -> DOMAIN list] :
                      \A a, b \in DOMAIN list : f[a] = f[b] => a = b}}

\* dict(zip(gene_labels, permutation)); a later pair of zip replaces an
\* earlier one with the same key
DictZip(gene_labels, permutation) ==
    [gene \in Range(gene_labels) |->
        permutation[CHOOSE i \in DOMAIN gene_labels :
                        /\ gene_labels[i] = gene
                        /\ \A j \in DOMAIN gene_labels : gene_labels[j] = gene => j <= i]]

\* shuffle_and_divide after the shuffle: shuffled is the None that shuffle
\* returned, and shuffled[:midpoint] is a TypeError
shuffle_and_divide(merged_samples, midpoint) ==
    LET shuffled == None
    IN  IF shuffled = None THEN Raised("TypeError")
        ELSE Returned(<<SubSeq(shuffled, 1, midpoint),
                        SubSeq(shuffled, midpoint + 1, Len(shuffled))>>, FALSE)

\* sorted(gene_sets) with GeneSet.__lt__ (enrichment < other.enrichment)
SortGeneSets(sets) ==
    LET place(i) == 1 + Cardinality({j \in DOMAIN sets :
                                        RatLt(sets[j].enrichment, sets[i].enrichment)})
                      + Cardinality({j \in DOMAIN sets :
                                        j < i /\ sets[j].enrichment = sets[i].enrichment})
    IN  [k \in DOMAIN sets |-> sets[CHOOSE i \in DOMAIN sets : place(i) = k]]

---------------------------------------------------------------------------
\* multiprocess.py: worker, progress_bar_worker, multiprocessing_queue, Pool

\* the sentinel 'STOP' and an item of a queue; task is a ghost index
STOP == [stop |-> TRUE, data |-> None, task |-> 0]
Item(data, task) == [stop |-> FALSE, data |-> data, task |-> task]

\* processes or available_cores()
processes_cnt == IF processes # 0 THEN processes ELSE cores

Workers == 1..processes_cnt

\* `not data`: 0 for a number, len() == 0 for a GeneSet
Falsy(data) ==
    IF target = "analyze_gene_set" THEN SetLen(data) = 0 ELSE data = 0

\* What func(data, *args) can do: exc is the exception it raises ("" for
\* none), data the object held in `data` once it returned, value what it
\* returned.  analyze_gene_set writes to its argument and returns it.
CallOutcomes(data) ==
    IF target = "analyze_gene_set"
    THEN LET score == calculate_enrichment_score(run_ranked_list, data,
                                                 config.ranked_list_weight)
         IN  IF score.exc # ""
             THEN {[exc |-> score.exc, data |-> data, value |-> None]}
             ELSE {LET r == analyze_gene_set(data, score.value, null,
                                             config.normalize_es, zero_to)
                   IN  IF r.exc # ""
                       THEN [exc |-> r.exc, data |-> data, value |-> None]
                       ELSE [exc |-> "", data |-> r.value, value |-> r.value] :
                      null \in NullDistributions(experiment, config, data,
                                                 config.permutations),
                      zero_to \in [1..config.permutations -> {"positive", "negative"}]}
    ELSE {[exc |-> IF func[data].raises THEN "Exception" ELSE "",
           data |-> data, value |-> func[data].value]}

\* The tasks whose failure the pool hands to its caller once it has returned:
\* worker has no handler around func, and neither the api nor the list
\* returned carries anything but the appended items.
ReportedFailures == {}

\* the pc of the caller once its loop over the items is at index i
AfterItems(i) == IF i > Len(iterable) THEN "put_stops" ELSE "put_items"

\* Pool.map, entry.  processes == 1: the lazy map object is returned and the
\* caller iterates it.  Otherwise multiprocessing_queue up to `yield api`:
\* manager list and queues made, progress process started.
MapEnter ==
    /\ pool_pc = "map"
    /\ IF processes = 1
       THEN /\ pool_pc' = IF iterable = <<>> THEN "returned" ELSE "single"
            /\ UNCHANGED bar_pc
       ELSE /\ pool_pc' = AfterItems(1)
            /\ bar_pc' = "get"
    /\ next_item' = 1
    /\ UNCHANGED <<target, processes, cores, func, iterable, queue, progress_queue,
                   results, completed, started, joined, w_pc, w_data, w_task,
                   w_stops, bar_n>>
    /\ UNCHANGED <<sd_vars, es_vars, an_vars, fdr_vars, run_vars, rs_vars,
                   tt_vars, ph_vars, gs_vars, pm_vars>>

\* processes == 1: one step of the iteration of map(lambda item: func(item,
\* *shared_args), tqdm(iterable)); an exception of func leaves the iteration
SingleNext ==
    /\ pool_pc = "single"
    /\ \E out \in CallOutcomes(iterable[next_item]) :
          IF out.exc # ""
          THEN /\ pool_pc' = "raised"
               /\ UNCHANGED <<results, completed, next_item, gene_sets>>
          ELSE /\ results' = Append(results, out.value)
               /\ completed' = Append(completed, next_item)
               /\ next_item' = next_item + 1
               /\ pool_pc' = IF next_item = Len(iterable) THEN "returned" ELSE "single"
               /\ gene_sets' = IF target = "analyze_gene_set"
                               THEN [gene_sets EXCEPT ![trimmed[next_item]] = out.data]
                               ELSE gene_sets
    /\ UNCHANGED <<target, processes, cores, func, iterable, queue, progress_queue,
                   started, joined, w_pc, w_data, w_task, w_stops, bar_pc, bar_n>>
    /\ UNCHANGED <<sd_vars, es_vars, an_vars, fdr_vars>>
    /\ UNCHANGED <<run_pc, experiment, loaded_gene_sets, config, trimmed, run_ranked_list, shuffler,
                   sorted_gene_sets>>
    /\ UNCHANGED <<rs_vars, tt_vars, ph_vars, gs_vars, pm_vars>>

\* the body of the with statement: api.queue.put(item)
PutItem ==
    /\ pool_pc = "put_items"
    /\ queue' = Append(queue, Item(iterable[next_item], next_item))
    /\ next_item' = IF next_item = Len(iterable) THEN 1 ELSE next_item + 1
    /\ pool_pc' = AfterItems(next_item + 1)
    /\ UNCHANGED <<target, processes, cores, func, iterable, progress_queue,
                   results, completed, started, joined, w_pc, w_data, w_task,
                   w_stops, bar_pc, bar_n>>
    /\ UNCHANGED <<sd_vars, es_vars, an_vars, fdr_vars, run_vars, rs_vars,
                   tt_vars, ph_vars, gs_vars, pm_vars>>

\* for process in processes: queue.put('STOP')
PutStop ==
    /\ pool_pc = "put_stops"
    /\ queue' = Append(queue, STOP)
    /\ next_item' = IF next_item = processes_cnt THEN 1 ELSE next_item + 1
    /\ pool_pc' = IF next_item = processes_cnt THEN "start" ELSE "put_stops"
    /\ UNCHANGED <<target, processes, cores, func, iterable, progress_queue,
                   results, completed, started, joined, w_pc, w_data, w_task,
                   w_stops, bar_pc, bar_n>>
    /\ UNCHANGED <<sd_vars, es_vars, an_vars, fdr_vars, run_vars, rs_vars,
                   tt_vars, ph_vars, gs_vars, pm_vars>>

\* for process in processes: process.start()
StartWorker ==
    /\ pool_pc = "start"
    /\ started' = started \cup {next_item}
    /\ w_pc' = [w_pc EXCEPT ![next_item] = "get"]
    /\ next_item' = IF next_item = processes_cnt THEN 1 ELSE next_item + 1
    /\ pool_pc' = IF next_item = processes_cnt THEN "join" ELSE "start"
    /\ UNCHANGED <<target, processes, cores, func, iterable, queue, progress_queue,
                   results, completed, joined, w_data, w_task, w_stops, bar_pc, bar_n>>
    /\ UNCHANGED <<sd_vars, es_vars, an_vars, fdr_vars, run_vars, rs_vars,
                   tt_vars, ph_vars, gs_vars, pm_vars>>

\* worker: data = input.get(); `if not data: continue`; `if data == 'STOP':
\* return`
WorkerGet(w) ==
    /\ w_pc[w] = "get"
    /\ queue # <<>>
    /\ queue' = Tail(queue)
    /\ LET e == Head(queue)
       IN  IF e.stop
           THEN /\ w_pc' = [w_pc EXCEPT ![w] = "exited"]
                /\ w_stops' = [w_stops EXCEPT ![w] = @ + 1]
                /\ UNCHANGED <<w_data, w_task>>
           ELSE IF Falsy(e.data)
           THEN UNCHANGED <<w_pc, w_stops, w_data, w_task>>
           ELSE /\ w_pc' = [w_pc EXCEPT ![w] = "call"]
                /\ w_data' = [w_data EXCEPT ![w] = e.data]
                /\ w_task' = [w_task EXCEPT ![w] = e.task]
                /\ UNCHANGED w_stops
    /\ UNCHANGED <<target, processes, cores, func, iterable, pool_pc, next_item,
                   progress_queue, results, completed, started, joined, bar_pc, bar_n>>
    /\ UNCHANGED <<sd_vars, es_vars, an_vars, fdr_vars, run_vars, rs_vars,
                   tt_vars, ph_vars, gs_vars, pm_vars>>

\* worker: func(data, *args); output.append(data).  The call works on the
\* worker's own copy of the item; an exception ends the process (no handler).
WorkerCall(w) ==
    /\ w_pc[w] = "call"
    /\ \E out \in CallOutcomes(w_data[w]) :
          IF out.exc # ""
          THEN /\ w_pc' = [w_pc EXCEPT ![w] = "crashed"]
               /\ UNCHANGED <<w_data, results, completed>>
          ELSE /\ w_pc' = [w_pc EXCEPT ![w] = "put"]
               /\ w_data' = [w_data EXCEPT ![w] = out.data]
               /\ results' = Append(results, out.data)
               /\ completed' = Append(completed, w_task[w])
    /\ UNCHANGED <<target, processes, cores, func, iterable, pool_pc, next_item,
                   queue, progress_queue, started, joined, w_task, w_stops,
                   bar_pc, bar_n>>
    /\ UNCHANGED <<sd_vars, es_vars, an_vars, fdr_vars, run_vars, rs_vars,
                   tt_vars, ph_vars, gs_vars, pm_vars>>

\* worker: progress_bar.put(1)
WorkerPut(w) ==
    /\ w_pc[w] = "put"
    /\ progress_queue' = Append(progress_queue, Item(1, 0))
    /\ w_pc' = [w_pc EXCEPT ![w] = "get"]
    /\ UNCHANGED <<target, processes, cores, func, iterable, pool_pc, next_item,
                   queue, results, completed, started, joined, w_data, w_task,
                   w_stops, bar_pc, bar_n>>
    /\ UNCHANGED <<sd_vars, es_vars, an_vars, fdr_vars, run_vars, rs_vars,
                   tt_vars, ph_vars, gs_vars, pm_vars>>

\* progress_bar_worker: one round of `for step in iter(queue.get, None)`
BarGet ==
    /\ bar_pc = "get"
    /\ progress_queue # <<>>
    /\ progress_queue' = Tail(progress_queue)
    /\ IF Head(progress_queue).stop
       THEN bar_pc' = "exited" /\ UNCHANGED bar_n
       ELSE bar_n' = bar_n + Head(progress_queue).data /\ UNCHANGED bar_pc
    /\ UNCHANGED <<target, processes, cores, func, iterable, pool_pc, next_item,
                   queue, results, completed, started, joined, w_pc, w_data,
                   w_task, w_stops>>
    /\ UNCHANGED <<sd_vars, es_vars, an_vars, fdr_vars, run_vars, rs_vars,
                   tt_vars, ph_vars, gs_vars, pm_vars>>

\* (variant) the join loop with a join() that does not wait for the process
\* to end
JoinWorkerWithoutWaiting ==
    /\ pool_pc = "join"
    /\ joined' = joined \cup {next_item}
    /\ IF next_item = processes_cnt
       THEN /\ progress_queue' = Append(progress_queue, STOP)
            /\ pool_pc' = "join_progress"
            /\ next_item' = 1
       ELSE /\ next_item' = next_item + 1
            /\ UNCHANGED <<progress_queue, pool_pc>>
    /\ UNCHANGED <<target, processes, cores, func, iterable, queue, results,
                   completed, started, w_pc, w_data, w_task, w_stops, bar_pc, bar_n>>
    /\ UNCHANGED <<sd_vars, es_vars, an_vars, fdr_vars, run_vars, rs_vars,
                   tt_vars, ph_vars, gs_vars, pm_vars>>

\* for process in processes: process.join(); after the last one,
\* progress_queue.put('STOP')
JoinWorker ==
    /\ pool_pc = "join"
    /\ w_pc[next_item] \in {"exited", "crashed"}
    /\ joined' = joined \cup {next_item}
    /\ IF next_item = processes_cnt
       THEN /\ progress_queue' = Append(progress_queue, STOP)
            /\ pool_pc' = "join_progress"
            /\ next_item' = 1
       ELSE /\ next_item' = next_item + 1
            /\ UNCHANGED <<progress_queue, pool_pc>>
    /\ UNCHANGED <<target, processes, cores, func, iterable, queue, results,
                   completed, started, w_pc, w_data, w_task, w_stops, bar_pc, bar_n>>
    /\ UNCHANGED <<sd_vars, es_vars, an_vars, fdr_vars, run_vars, rs_vars,
                   tt_vars, ph_vars, gs_vars, pm_vars>>

\* progress.join(); return api.results
JoinProgress ==
    /\ pool_pc = "join_progress"
    /\ bar_pc = "exited"
    /\ pool_pc' = "returned"
    /\ UNCHANGED <<target, processes, cores, func, iterable, next_item, queue,
                   progress_queue, results, completed, started, joined, w_pc,
                   w_data, w_task, w_stops, bar_pc, bar_n>>
    /\ UNCHANGED <<sd_vars, es_vars, an_vars, fdr_vars, run_vars, rs_vars,
                   tt_vars, ph_vars, gs_vars, pm_vars>>

PoolNext ==
    \/ MapEnter \/ SingleNext \/ PutItem \/ PutStop \/ StartWorker
    \/ \E w \in Workers : WorkerGet(w)
    \/ \E w \in Workers : WorkerCall(w)
    \/ \E w \in Workers : WorkerPut(w)
    \/ BarGet \/ JoinWorker \/ JoinProgress

---------------------------------------------------------------------------
\* Inputs the three routines are tried on.

\* metric values of a ranked list (floats in the code; whole units here)
RankValues == {-1, 0, 1, 2}

\* ranked lists as create_ranked_gene_list returns them with the default
\* descending_sort: every gene of the universe 1..n once, under any labelling
\* (GeneShuffler relabels), metric values in descending order
RankedLists ==
    UNION {{[i \in 1..n |-> <<label[i], rank[i]>>] :
               label \in {f \in [1..n -> 1..n] : \A a, b \in 1..n : f[a] = f[b] => a = b},
               rank \in {r \in [1..n -> RankValues] :
                            \A a \in 1..(n - 1) : r[a] >= r[a + 1]}} :
           n \in 1..MaxGenes}

\* raw enrichment scores (whole units)
ScoreValues == {Rat(k, 1) : k \in {-2, -1, 0, 1, 2}}

\* every ScoreDistribution of `len` scores that append can build from S:
\* strictly negative scores in negative_scores, strictly positive ones in
\* positive_scores, zeros in either
Distributions(S, len) ==
    {d \in [negative_scores : SeqsUpTo({x \in S : ~IsPos(x)}, len),
            positive_scores : SeqsUpTo({x \in S : ~IsNeg(x)}, len)] :
        DistLen(d) = len}

\* enrichments and null scores of an analysed collection
FdrValues == {Rat(k, 1) : k \in {-2, 0, 1}}

\* an analysed gene set: enrichment, nominal p-value and null distribution set
AnalysedSets(len) ==
    {[GeneSet("S", {1}) EXCEPT !.enrichment = e, !.nominal_p_value = Zero,
                               !.null_distribution = d] :
        e \in FdrValues, d \in Distributions(FdrValues, len)}

---------------------------------------------------------------------------
\* The values the variables of a routine hold in the specifications that do
\* not exercise it.

SdIdle ==
    /\ sd_pc = "idle" /\ sd_scores = <<>> /\ sd_dist = None /\ sd_out = None
    /\ sd_len = None

EsIdle ==
    /\ es_pc = "idle" /\ es_ranked_list = <<>> /\ es_gene_set = None
    /\ es_weight = 1 /\ es_result = None

AnIdle ==
    /\ an_pc = "idle" /\ an_normalize_es = TRUE /\ an_score = Zero
    /\ an_null = EmptyDistribution /\ an_gene_set = None /\ an_p = None
    /\ an_norm = None /\ an_result = None

FdrIdle == fdr_pc = "idle" /\ fdr_sets = <<>> /\ fdr_exc = "" /\ fdr_assigned = {}

\* the pool before map is entered: nothing queued, no process started
PoolFresh ==
    /\ next_item = 1 /\ queue = <<>> /\ progress_queue = <<>>
    /\ results = <<>> /\ completed = <<>> /\ started = {} /\ joined = {}
    /\ w_pc = [w \in Workers |-> "new"]
    /\ w_data = [w \in Workers |-> None]
    /\ w_task = [w \in Workers |-> 0]
    /\ w_stops = [w \in Workers |-> 0]
    /\ bar_pc = "new" /\ bar_n = 0

PoolIdle ==
    /\ target = "func" /\ processes = 1 /\ cores = 1 /\ func = <<>>
    /\ iterable = <<>> /\ pool_pc = "idle" /\ PoolFresh

RunIdle ==
    /\ run_pc = "idle" /\ experiment = None /\ gene_sets = <<>> /\ config = None
    /\ loaded_gene_sets = <<>>
    /\ trimmed = <<>> /\ run_ranked_list = <<>> /\ shuffler = None
    /\ sorted_gene_sets = <<>>

RsIdle ==
    /\ rs_pc = "idle" /\ rs_gene_set = None /\ rs_created = None
    /\ rs_before = None /\ rs_universe = None /\ rs_removed = None
    /\ rs_calls = 0

TtIdle ==
    /\ tt_pc = "idle" /\ tt_gene_sets = <<>> /\ tt_loaded = <<>>
    /\ tt_genes = {} /\ tt_min_max = None /\ tt_first = <<>>
    /\ tt_after_first = <<>> /\ tt_second = <<>> /\ tt_removed = {}

PhIdle ==
    /\ ph_pc = "idle" /\ ph_case = <<>> /\ ph_control = <<>>
    /\ ph_all_samples = <<>> /\ ph_cases_cnt = 0 /\ ph_result = None

GsIdle ==
    /\ gs_pc = "idle" /\ gs_experiment = None /\ gs_descending_sort = TRUE
    /\ gs_real = <<>> /\ gs_gene_labels = <<>> /\ gs_permutation = <<>>
    /\ gs_labels_map = None /\ gs_ranked = <<>> /\ gs_calls = 0

PmIdle ==
    /\ pm_pc = <<>> /\ pm_class = "genes" /\ pm_permutations = 0
    /\ pm_gene_sets = <<>> /\ pm_queue = <<>> /\ pm_task = <<>>
    /\ pm_round = <<>> /\ pm_es_null = <<>> /\ pm_target = <<>>
    /\ pm_set_calls = <<>> /\ pm_samples = <<>> /\ pm_used = <<>>
    /\ pm_returned = <<>>

---------------------------------------------------------------------------
\* SpecDist: a ScoreDistribution is built from a list of scores, then iterated
\* and measured.

InitDist ==
    /\ sd_pc = "new"
    /\ sd_scores \in SeqsUpTo(ScoreValues, MaxScores)
    /\ sd_dist = None /\ sd_out = None /\ sd_len = None
    /\ EsIdle /\ AnIdle /\ FdrIdle /\ PoolIdle /\ RunIdle /\ RsIdle
    /\ TtIdle /\ PhIdle /\ GsIdle /\ PmIdle

\* ScoreDistribution.__init__(scores)
DistInit ==
    /\ sd_pc = "new"
    /\ \E zero_to \in [DOMAIN sd_scores -> {"positive", "negative"}] :
          sd_dist' = DistFrom(sd_scores, 1, zero_to, EmptyDistribution)
    /\ sd_pc' = "built"
    /\ UNCHANGED <<sd_scores, sd_out, sd_len>>
    /\ UNCHANGED <<es_vars, an_vars, fdr_vars, pool_vars, run_vars, rs_vars,
                   tt_vars, ph_vars, gs_vars, pm_vars>>

\* list(distribution) and len(distribution)
DistIterate ==
    /\ sd_pc = "built"
    /\ sd_out' = DistIter(sd_dist)
    /\ sd_len' = DistLen(sd_dist)
    /\ sd_pc' = "iterated"
    /\ UNCHANGED <<sd_scores, sd_dist>>
    /\ UNCHANGED <<es_vars, an_vars, fdr_vars, pool_vars, run_vars, rs_vars,
                   tt_vars, ph_vars, gs_vars, pm_vars>>

NextDist == DistInit \/ DistIterate

SpecDist == InitDist /\ [][NextDist]_vars

---------------------------------------------------------------------------
\* SpecScore: calculate_enrichment_score applied to a ranked list and a gene
\* set trimmed to its universe.

InitScore ==
    /\ es_pc = "ready"
    /\ es_ranked_list \in RankedLists
    /\ es_gene_set \in {GeneSet("S", g) : g \in SUBSET (1..Len(es_ranked_list))}
    /\ es_weight \in 1..MaxWeight
    /\ es_result = None
    /\ SdIdle /\ AnIdle /\ FdrIdle /\ PoolIdle /\ RunIdle /\ RsIdle
    /\ TtIdle /\ PhIdle /\ GsIdle /\ PmIdle

ScoreCall ==
    /\ es_pc = "ready"
    /\ es_result' = calculate_enrichment_score(es_ranked_list, es_gene_set, es_weight)
    /\ es_pc' = IF es_result'.exc = "" THEN "returned" ELSE "raised"
    /\ UNCHANGED <<es_ranked_list, es_gene_set, es_weight, an_vars, fdr_vars, pool_vars, run_vars, sd_vars>>
    /\ UNCHANGED <<rs_vars, tt_vars, ph_vars, gs_vars, pm_vars>>

NextScore == ScoreCall

SpecScore == InitScore /\ [][NextScore]_vars

---------------------------------------------------------------------------
\* SpecAnalyze: analyze_gene_set from the point where the enrichment score
\* and the null distribution are known.

InitAnalyze ==
    /\ an_pc = "significance"
    /\ an_normalize_es \in BOOLEAN
    /\ an_score \in ScoreValues
    /\ an_null \in UNION {Distributions(ScoreValues, len) : len \in 0..MaxPermutations}
    /\ an_gene_set = GeneSet("S", {1})
    /\ an_p = None
    /\ an_norm = None
    /\ an_result = None
    /\ SdIdle /\ EsIdle /\ FdrIdle /\ PoolIdle /\ RunIdle /\ RsIdle
    /\ TtIdle /\ PhIdle /\ GsIdle /\ PmIdle

\* line 275
AnalyzeSignificance ==
    /\ an_pc = "significance"
    /\ an_p' = estimate_significance_level(an_score, an_null)
    /\ an_pc' = "normalize"
    /\ UNCHANGED <<an_normalize_es, an_score, an_null, an_gene_set, an_norm, an_result, es_vars, fdr_vars, pool_vars, run_vars, sd_vars>>
    /\ UNCHANGED <<rs_vars, tt_vars, ph_vars, gs_vars, pm_vars>>

\* lines 278-289
AnalyzeNormalizeStore ==
    /\ an_pc = "normalize"
    /\ \E zero_to \in [1..DistLen(an_null) -> {"positive", "negative"}] :
          /\ an_norm' = normalize_enrichment(an_normalize_es, an_score, an_null,
                                              zero_to)
          /\ an_result' = NormalizeAndStore(an_gene_set, an_score, an_null, an_p,
                                            an_normalize_es, zero_to)
    /\ an_gene_set' = IF an_result'.exc = "" THEN an_result'.value ELSE an_gene_set
    /\ an_pc' = IF an_result'.exc = "" THEN "returned" ELSE "raised"
    /\ UNCHANGED <<an_normalize_es, an_score, an_null, an_p, es_vars, fdr_vars, pool_vars, run_vars, sd_vars>>
    /\ UNCHANGED <<rs_vars, tt_vars, ph_vars, gs_vars, pm_vars>>

NextAnalyze == AnalyzeSignificance \/ AnalyzeNormalizeStore

SpecAnalyze == InitAnalyze /\ [][NextAnalyze]_vars

---------------------------------------------------------------------------
\* SpecFdr: compute_fdr applied to an analysed collection in which every null
\* distribution holds `permutations` scores.

InitFdr ==
    /\ fdr_pc = "ready"
    /\ \E len \in 0..MaxFdrPermutations, k \in 0..MaxFdrSets :
          fdr_sets \in [1..k -> AnalysedSets(len)]
    /\ fdr_exc = ""
    /\ fdr_assigned = {}
    /\ SdIdle /\ EsIdle /\ AnIdle /\ PoolIdle /\ RunIdle /\ RsIdle
    /\ TtIdle /\ PhIdle /\ GsIdle /\ PmIdle

FdrCall ==
    /\ fdr_pc = "ready"
    /\ LET r == compute_fdr(fdr_sets)
       IN  /\ fdr_sets' = r.sets
           /\ fdr_exc' = r.exc
           /\ fdr_assigned' = r.assigned
           /\ fdr_pc' = IF r.exc = "" THEN "returned" ELSE "raised"
    /\ UNCHANGED <<es_vars, an_vars, pool_vars, run_vars, sd_vars, rs_vars,
                   tt_vars, ph_vars, gs_vars, pm_vars>>

NextFdr == FdrCall

SpecFdr == InitFdr /\ [][NextFdr]_vars

---------------------------------------------------------------------------
\* SpecPool: Pool(processes).map(func, iterable, shared_args) for a function
\* given by its outcome on each item.

\* the items: 0 is falsy
ItemValues == {0, 2}

\* func: pow(item, 2) of the tests, raising on the items of `bad`
Functions ==
    {[item \in ItemValues |-> [raises |-> item \in bad, value |-> item * item]] :
        bad \in {{}, {0}, {2}}}

\* Pool.__init__: processes, 0 standing for the count of available cores
ProcessChoices ==
    /\ processes \in 0..MaxProcesses
    /\ cores \in IF processes = 0 THEN 1..MaxProcesses ELSE {1}

InitPool ==
    /\ target = "func"
    /\ ProcessChoices
    /\ func \in Functions
    /\ iterable \in SeqsUpTo(ItemValues, MaxItems)
    /\ pool_pc = "map"
    /\ PoolFresh
    /\ SdIdle /\ EsIdle /\ AnIdle /\ FdrIdle /\ RunIdle /\ RsIdle
    /\ TtIdle /\ PhIdle /\ GsIdle /\ PmIdle

NextPool == PoolNext

SpecPool == InitPool /\ [][NextPool]_vars

\* SpecPoolFair: the same, every process being scheduled as long as it can
\* take a step: the caller of map, each worker process and the progress bar
\* process (queue.get blocks only while its queue is empty).
PoolFairness ==
    /\ WF_vars(MapEnter \/ SingleNext \/ PutItem \/ PutStop \/ StartWorker
                   \/ JoinWorker \/ JoinProgress)
    /\ \A w \in 1..MaxProcesses :
           WF_vars(w \in Workers /\ (WorkerGet(w) \/ WorkerCall(w) \/ WorkerPut(w)))
    /\ WF_vars(BarGet)

SpecPoolFair == InitPool /\ [][NextPool]_vars /\ PoolFairness

---------------------------------------------------------------------------
\* SpecRun: GeneralisedGSEA.run on an experiment of two genes and a database
\* of up to MaxGeneSets gene sets, with GeneShuffler.

\* the genes of the gene sets of the database (gene 3 is not in the case)
DatabaseGenes == {{1}, {1, 2}, {2, 3}}

Experiments ==
    {[case_genes |-> <<1, 2>>, control_genes |-> c, metric |-> <<1, 0>>] :
        c \in {<<1, 2>>, <<1, 3>>}}

Configs ==
    [min_max : {<<0, 2>>, <<1, 1>>},
     permutations : {1},
     normalize_es : BOOLEAN,
     ranked_list_weight : {1},
     descending_sort : {TRUE}]

InitRun ==
    /\ run_pc = "trim"
    /\ experiment \in Experiments
    /\ \E k \in 0..MaxGeneSets :
          gene_sets \in {[i \in 1..k |-> GeneSet(i, g[i])] : g \in [1..k -> DatabaseGenes]}
    /\ loaded_gene_sets = gene_sets
    /\ config \in Configs
    /\ trimmed = <<>> /\ run_ranked_list = <<>> /\ shuffler = None
    /\ sorted_gene_sets = <<>>
    /\ target = "analyze_gene_set"
    /\ processes \in {0, 1, 2}
    /\ cores = 2
    /\ func = <<>>
    /\ iterable = <<>>
    /\ pool_pc = "idle"
    /\ PoolFresh
    /\ SdIdle /\ EsIdle /\ AnIdle /\ FdrIdle /\ RsIdle /\ TtIdle /\ PhIdle
    /\ GsIdle /\ PmIdle

\* gene_sets = self.trim_gene_sets(self.gene_sets, experiment)
RunTrim ==
    /\ run_pc = "trim"
    /\ LET r == trim_gene_sets(gene_sets, Range(experiment.case_genes), config.min_max)
       IN  /\ gene_sets' = r.gene_sets
           /\ trimmed' = r.trimmed
           /\ run_pc' = IF r.exc = "" THEN "rank" ELSE "raised"
    /\ UNCHANGED <<experiment, loaded_gene_sets, config, run_ranked_list, shuffler, sorted_gene_sets>>
    /\ UNCHANGED <<sd_vars, es_vars, an_vars, fdr_vars, pool_vars, rs_vars,
                   tt_vars, ph_vars, gs_vars, pm_vars>>

\* ranked_list = self.create_ranked_gene_list(experiment.case, experiment.control)
RunRank ==
    /\ run_pc = "rank"
    /\ LET r == create_ranked_gene_list(experiment, None, config.descending_sort)
       IN  IF r.exc = ""
           THEN run_ranked_list' = r.value /\ run_pc' = "shuffler"
           ELSE run_pc' = "raised" /\ UNCHANGED run_ranked_list
    /\ UNCHANGED <<experiment, loaded_gene_sets, gene_sets, config, trimmed, shuffler, sorted_gene_sets>>
    /\ UNCHANGED <<sd_vars, es_vars, an_vars, fdr_vars, pool_vars, rs_vars,
                   tt_vars, ph_vars, gs_vars, pm_vars>>

\* self.shuffler = self.shuffler_class(experiment, ...): GeneShuffler.__init__
RunShuffler ==
    /\ run_pc = "shuffler"
    /\ shuffler' = [gene_labels |-> experiment.control_genes,
                    permutation |-> experiment.control_genes,
                    gene_set |-> None]
    /\ run_pc' = "imap"
    /\ UNCHANGED <<experiment, loaded_gene_sets, gene_sets, config, trimmed, run_ranked_list, sorted_gene_sets>>
    /\ UNCHANGED <<sd_vars, es_vars, an_vars, fdr_vars, pool_vars, rs_vars,
                   tt_vars, ph_vars, gs_vars, pm_vars>>

\* pool = multiprocess.Pool(self.processes); pool.imap(self.analyze_gene_set,
\* gene_sets, shared_args=args)
RunImap ==
    /\ run_pc = "imap"
    /\ iterable' = [k \in DOMAIN trimmed |-> gene_sets[trimmed[k]]]
    /\ pool_pc' = "map"
    /\ run_pc' = "pool"
    /\ UNCHANGED <<target, processes, cores, func, next_item, queue, progress_queue,
                   results, completed, started, joined, w_pc, w_data, w_task,
                   w_stops, bar_pc, bar_n>>
    /\ UNCHANGED <<experiment, loaded_gene_sets, gene_sets, config, trimmed, run_ranked_list, shuffler,
                   sorted_gene_sets>>
    /\ UNCHANGED <<sd_vars, es_vars, an_vars, fdr_vars, rs_vars, tt_vars,
                   ph_vars, gs_vars, pm_vars>>

\* sorted_gene_sets = sorted(gene_sets); with processes == 1 the exception of
\* a task comes out of sorted
RunSort ==
    /\ run_pc = "pool"
    /\ pool_pc \in {"returned", "raised"}
    /\ IF pool_pc = "returned"
       THEN sorted_gene_sets' = SortGeneSets(results) /\ run_pc' = "compute_fdr"
       ELSE run_pc' = "raised" /\ UNCHANGED sorted_gene_sets
    /\ UNCHANGED <<experiment, loaded_gene_sets, gene_sets, config, trimmed, run_ranked_list, shuffler>>
    /\ UNCHANGED <<sd_vars, es_vars, an_vars, fdr_vars, pool_vars, rs_vars,
                   tt_vars, ph_vars, gs_vars, pm_vars>>

\* self.compute_fdr(sorted_gene_sets); return GSEAResult(sorted_gene_sets).
\* With processes == 1 the sorted objects are the objects of self.gene_sets;
\* otherwise they are the copies the workers sent back.
RunFdr ==
    /\ run_pc = "compute_fdr"
    /\ LET r == compute_fdr(sorted_gene_sets)
       IN  /\ sorted_gene_sets' = r.sets
           /\ run_pc' = IF r.exc = "" THEN "returned" ELSE "raised"
           /\ gene_sets' =
                 IF processes = 1
                 THEN [i \in DOMAIN gene_sets |->
                          IF \E k \in DOMAIN r.sets : r.sets[k].name = gene_sets[i].name
                          THEN r.sets[CHOOSE k \in DOMAIN r.sets :
                                          r.sets[k].name = gene_sets[i].name]
                          ELSE gene_sets[i]]
                 ELSE gene_sets
    /\ UNCHANGED <<experiment, loaded_gene_sets, config, trimmed, run_ranked_list, shuffler>>
    /\ UNCHANGED <<sd_vars, es_vars, an_vars, fdr_vars, pool_vars, rs_vars,
                   tt_vars, ph_vars, gs_vars, pm_vars>>

\* SpecTrim: trim_gene_sets on its own, for datasets of the genes 1..n, gene
\* sets over one gene more than the largest dataset, and every min_max.

TrimExperiments ==
    {[case_genes |-> [i \in 1..n |-> i], control_genes |-> [i \in 1..n |-> i],
      metric |-> [i \in 1..n |-> 0]] : n \in 1..MaxTrimGenes}

InitTrim ==
    /\ run_pc = "trim"
    /\ experiment \in TrimExperiments
    /\ \E k \in 0..MaxTrimSets :
          gene_sets \in {[i \in 1..k |-> GeneSet(i, g[i])] :
                            g \in [1..k -> SUBSET (1..(MaxTrimGenes + 1))]}
    /\ loaded_gene_sets = gene_sets
    /\ config \in [min_max : (0..(MaxTrimGenes + 1)) \X (0..(MaxTrimGenes + 1)),
                    permutations : {1}, normalize_es : {TRUE},
                    ranked_list_weight : {1}, descending_sort : {TRUE}]
    /\ trimmed = <<>> /\ run_ranked_list = <<>> /\ shuffler = None
    /\ sorted_gene_sets = <<>>
    /\ SdIdle /\ EsIdle /\ AnIdle /\ FdrIdle /\ PoolIdle /\ RsIdle
    /\ TtIdle /\ PhIdle /\ GsIdle /\ PmIdle

NextTrim == RunTrim

SpecTrim == InitTrim /\ [][NextTrim]_vars

\* SpecRank: create_ranked_gene_list on its own, for the genes 1..n in any
\* order, every metric value per gene, both sort directions, and a control
\* with the same genes or with one gene replaced.

RankExperiments ==
    UNION {{[case_genes |-> c, control_genes |-> d, metric |-> m] :
               c \in {f \in [1..n -> 1..n] : \A a, b \in 1..n : f[a] = f[b] => a = b},
               d \in {[i \in 1..n |-> i], [i \in 1..n |-> i + 1]},
               m \in [1..n -> RankValues]} :
           n \in 1..MaxRankGenes}

InitRank ==
    /\ run_pc = "rank"
    /\ experiment \in RankExperiments
    /\ gene_sets = <<>> /\ loaded_gene_sets = <<>>
    /\ config \in [min_max : {<<0, MaxRankGenes>>}, permutations : {1},
                    normalize_es : {TRUE}, ranked_list_weight : {1},
                    descending_sort : BOOLEAN]
    /\ trimmed = <<>> /\ run_ranked_list = <<>> /\ shuffler = None
    /\ sorted_gene_sets = <<>>
    /\ SdIdle /\ EsIdle /\ AnIdle /\ FdrIdle /\ PoolIdle /\ RsIdle
    /\ TtIdle /\ PhIdle /\ GsIdle /\ PmIdle

NextRank == RunRank

SpecRank == InitRank /\ [][NextRank]_vars

NextRun ==
    \/ RunTrim \/ RunRank \/ RunShuffler \/ RunImap \/ RunSort \/ RunFdr
    \/ PoolNext

SpecRun == InitRun /\ [][NextRun]_vars

---------------------------------------------------------------------------
\* SpecRestrict: a GeneSet is made and restrict_to_genes is called on it up to
\* MaxRestrictCalls times, each time with any collection of genes.

InitRestrict ==
    /\ rs_pc = "made"
    /\ rs_gene_set \in {GeneSet("S", g) : g \in SUBSET (1..MaxRestrictGenes)}
    /\ rs_created = rs_gene_set
    /\ rs_before = None /\ rs_universe = None /\ rs_removed = None
    /\ rs_calls = 0
    /\ SdIdle /\ EsIdle /\ AnIdle /\ FdrIdle /\ PoolIdle /\ RunIdle
    /\ TtIdle /\ PhIdle /\ GsIdle /\ PmIdle

\* removed = gene_set.restrict_to_genes(genes)
RestrictCall ==
    /\ rs_calls < MaxRestrictCalls
    /\ \E genes \in SUBSET (1..MaxRestrictGenes) :
          LET r == restrict_to_genes(rs_gene_set, genes)
          IN  /\ rs_gene_set' = r.gene_set
              /\ rs_removed' = r.removed
              /\ rs_universe' = genes
    /\ rs_before' = rs_gene_set
    /\ rs_calls' = rs_calls + 1
    /\ rs_pc' = "restricted"
    /\ UNCHANGED rs_created
    /\ UNCHANGED <<sd_vars, es_vars, an_vars, fdr_vars, pool_vars, run_vars,
                   tt_vars, ph_vars, gs_vars, pm_vars>>

NextRestrict == RestrictCall

SpecRestrict == InitRestrict /\ [][NextRestrict]_vars

---------------------------------------------------------------------------
\* SpecTrimTwice: trim_gene_sets is called on a collection of gene sets and
\* then once more for the same experiment, on the same collection or on the
\* list the first call returned.  The dataset has the genes 1..MaxTrimGenes,
\* the gene sets are over one gene more.  A list of gene sets is the sequence
\* of the indices of its objects in the collection.

InitTrimTwice ==
    /\ tt_pc = "loaded"
    /\ tt_genes = 1..MaxTrimGenes
    /\ \E k \in 0..MaxTrimSets :
          tt_gene_sets \in {[i \in 1..k |-> GeneSet(i, g[i])] :
                               g \in [1..k -> SUBSET (1..(MaxTrimGenes + 1))]}
    /\ tt_loaded = tt_gene_sets
    /\ tt_min_max \in (0..(MaxTrimGenes + 1)) \X (0..(MaxTrimGenes + 1))
    /\ tt_first = <<>> /\ tt_after_first = <<>> /\ tt_second = <<>>
    /\ tt_removed = {}
    /\ SdIdle /\ EsIdle /\ AnIdle /\ FdrIdle /\ PoolIdle /\ RunIdle
    /\ RsIdle /\ PhIdle /\ GsIdle /\ PmIdle

\* first = self.trim_gene_sets(gene_sets, experiment)
TrimFirst ==
    /\ tt_pc = "loaded"
    /\ LET r == trim_gene_sets(tt_gene_sets, tt_genes, tt_min_max)
       IN  /\ tt_gene_sets' = r.gene_sets
           /\ tt_after_first' = r.gene_sets
           /\ tt_first' = r.trimmed
           /\ tt_pc' = IF r.exc = "" THEN "first" ELSE "raised"
    /\ UNCHANGED <<tt_loaded, tt_genes, tt_min_max, tt_second, tt_removed>>
    /\ UNCHANGED <<sd_vars, es_vars, an_vars, fdr_vars, pool_vars, run_vars,
                   rs_vars, ph_vars, gs_vars, pm_vars>>

\* second = self.trim_gene_sets(argument, experiment), the argument being
\* gene_sets again or first; tt_removed is all_removed of this call
TrimSecond ==
    /\ tt_pc = "first"
    /\ \E argument \in {[i \in DOMAIN tt_gene_sets |-> i], tt_first} :
          LET sets == [k \in DOMAIN argument |-> tt_gene_sets[argument[k]]]
              r == trim_gene_sets(sets, tt_genes, tt_min_max)
          IN  /\ tt_gene_sets' =
                     [i \in DOMAIN tt_gene_sets |->
                         IF \E k \in DOMAIN argument : argument[k] = i
                         THEN r.gene_sets[CHOOSE k \in DOMAIN argument : argument[k] = i]
                         ELSE tt_gene_sets[i]]
              /\ tt_second' = [k \in DOMAIN r.trimmed |-> argument[r.trimmed[k]]]
              /\ tt_removed' =
                     UNION {restrict_to_genes(sets[k], tt_genes).removed : k \in DOMAIN sets}
              /\ tt_pc' = IF r.exc = "" THEN "second" ELSE "raised"
    /\ UNCHANGED <<tt_loaded, tt_genes, tt_min_max, tt_first, tt_after_first>>
    /\ UNCHANGED <<sd_vars, es_vars, an_vars, fdr_vars, pool_vars, run_vars,
                   rs_vars, ph_vars, gs_vars, pm_vars>>

NextTrimTwice == TrimFirst \/ TrimSecond

SpecTrimTwice == InitTrimTwice /\ [][NextTrimTwice]_vars

---------------------------------------------------------------------------
\* SpecPhenotype: a PhenotypeShuffler is made for an experiment of up to
\* MaxSamples samples (case and control non-empty, no sample in both) and
\* permute_and_score is called.

\* the lists of distinct samples
SampleLists ==
    {l \in SeqsUpTo(1..MaxSamples, MaxSamples) :
        l # <<>> /\ \A a, b \in DOMAIN l : l[a] = l[b] => a = b}

InitPhenotype ==
    /\ ph_pc = "new"
    /\ ph_case \in SampleLists
    /\ ph_control \in {l \in SampleLists : Range(l) \cap Range(ph_case) = {}}
    /\ ph_all_samples = <<>> /\ ph_cases_cnt = 0 /\ ph_result = None
    /\ SdIdle /\ EsIdle /\ AnIdle /\ FdrIdle /\ PoolIdle /\ RunIdle
    /\ RsIdle /\ TtIdle /\ GsIdle /\ PmIdle

\* PhenotypeShuffler.__init__
PhenotypeInit ==
    /\ ph_pc = "new"
    /\ ph_all_samples' = ph_case \o ph_control
    /\ ph_cases_cnt' = Len(ph_case)
    /\ ph_pc' = "made"
    /\ UNCHANGED <<ph_case, ph_control, ph_result>>
    /\ UNCHANGED <<sd_vars, es_vars, an_vars, fdr_vars, pool_vars, run_vars,
                   rs_vars, tt_vars, gs_vars, pm_vars>>

\* PhenotypeShuffler.permute_and_score: shuffle_and_divide shuffles
\* all_samples.samples in place and then raises
PhenotypePermute ==
    /\ ph_pc = "made"
    /\ ph_all_samples' \in Shuffles(ph_all_samples)
    /\ ph_result' = shuffle_and_divide(ph_all_samples', ph_cases_cnt)
    /\ ph_pc' = IF ph_result'.exc = "" THEN "returned" ELSE "raised"
    /\ UNCHANGED <<ph_case, ph_control, ph_cases_cnt>>
    /\ UNCHANGED <<sd_vars, es_vars, an_vars, fdr_vars, pool_vars, run_vars,
                   rs_vars, tt_vars, gs_vars, pm_vars>>

NextPhenotype == PhenotypeInit \/ PhenotypePermute

SpecPhenotype == InitPhenotype /\ [][NextPhenotype]_vars

---------------------------------------------------------------------------
\* SpecGeneShuffle: the real ranked list is made, a GeneShuffler is made for
\* the experiment and permute_and_score is called up to MaxShuffleCalls times.
\* Case and control have the same genes (run has ranked them before it makes
\* the shuffler), the case in the order of the control or in the reverse.

\* metric values of the genes
ShuffleMetricValues == {0, 1, 2}

ShuffleExperiments ==
    UNION {{[case_genes |-> c, control_genes |-> [i \in 1..n |-> i], metric |-> m] :
               c \in {[i \in 1..n |-> i], [i \in 1..n |-> n + 1 - i]},
               m \in [1..n -> ShuffleMetricValues]} :
           n \in 1..MaxShuffleGenes}

InitGeneShuffle ==
    /\ gs_pc = "new"
    /\ gs_experiment \in ShuffleExperiments
    /\ gs_descending_sort \in BOOLEAN
    /\ gs_real = create_ranked_gene_list(gs_experiment, None, gs_descending_sort).value
    /\ gs_gene_labels = <<>> /\ gs_permutation = <<>> /\ gs_labels_map = None
    /\ gs_ranked = <<>> /\ gs_calls = 0
    /\ SdIdle /\ EsIdle /\ AnIdle /\ FdrIdle /\ PoolIdle /\ RunIdle
    /\ RsIdle /\ TtIdle /\ PhIdle /\ PmIdle

\* GeneShuffler.__init__: gene_labels, and permutation as a copy of it
GeneShufflerInit ==
    /\ gs_pc = "new"
    /\ gs_gene_labels' = gs_experiment.control_genes
    /\ gs_permutation' = gs_experiment.control_genes
    /\ gs_pc' = "made"
    /\ UNCHANGED <<gs_experiment, gs_descending_sort, gs_real, gs_labels_map, gs_ranked, gs_calls>>
    /\ UNCHANGED <<sd_vars, es_vars, an_vars, fdr_vars, pool_vars, run_vars,
                   rs_vars, tt_vars, ph_vars, pm_vars>>

\* GeneShuffler.permute_and_score up to the ranked list: shuffle of
\* self.permutation in place, labels_map, self.rank(...)
GenePermute ==
    /\ gs_pc \in {"made", "permuted"}
    /\ gs_calls < MaxShuffleCalls
    /\ gs_permutation' \in Shuffles(gs_permutation)
    /\ gs_labels_map' = DictZip(gs_gene_labels, gs_permutation')
    /\ LET r == create_ranked_gene_list(gs_experiment, gs_labels_map', gs_descending_sort)
       IN  /\ gs_ranked' = r.value
           /\ gs_pc' = IF r.exc = "" THEN "permuted" ELSE "raised"
    /\ gs_calls' = gs_calls + 1
    /\ UNCHANGED <<gs_experiment, gs_descending_sort, gs_real, gs_gene_labels>>
    /\ UNCHANGED <<sd_vars, es_vars, an_vars, fdr_vars, pool_vars, run_vars,
                   rs_vars, tt_vars, ph_vars, pm_vars>>

NextGeneShuffle == GeneShufflerInit \/ GenePermute

SpecGeneShuffle == InitGeneShuffle /\ [][NextGeneShuffle]_vars

---------------------------------------------------------------------------
\* SpecPermute: the worker processes of the pool take gene sets from the task
\* queue and run enrichments_for_permuted_labels on each, step by step.  Every
\* process works on its own copy of the GeneralisedGSEA object, and so of
\* self.shuffler (the bound method is handed to multiprocessing.Process); with
\* one worker this is also the run within one process.

\* the experiment (two genes, positive metric values) and the settings of
\* the runs
PermuteExperiment ==
    [case_genes |-> <<1, 2>>, control_genes |-> <<1, 2>>, metric |-> <<2, 1>>]

PermuteConfig == [ranked_list_weight |-> 1, descending_sort |-> TRUE]

\* (variant) one shuffler object used by every worker
ShufflerShared(w) == 1

\* the shuffler object that self.shuffler is in the process of worker w
ShufflerOf(w) == w

PermuteWorkers == DOMAIN pm_pc

InitPermute ==
    /\ pm_class \in {"genes", "phenotypes"}
    /\ pm_permutations \in 0..MaxPermuteRounds
    /\ \E k \in 1..MaxPermuteSets :
          /\ pm_gene_sets \in {[i \in 1..k |-> GeneSet(i, g[i])] :
                                  g \in [1..k -> {{1}, {2}}]}
          /\ pm_queue = [i \in 1..k |-> i]
          /\ pm_set_calls = [i \in 1..k |-> 0]
          /\ pm_samples = [i \in 1..k |-> 0]
          /\ pm_used = [i \in 1..k |-> <<>>]
          /\ pm_returned = [i \in 1..k |-> None]
    /\ \E n \in 1..MaxPermuteWorkers :
          /\ pm_pc = [w \in 1..n |-> "get"]
          /\ pm_task = [w \in 1..n |-> 0]
          /\ pm_round = [w \in 1..n |-> 0]
          /\ pm_es_null = [w \in 1..n |-> None]
          /\ pm_target = [w \in 1..n |-> None]
    /\ SdIdle /\ EsIdle /\ AnIdle /\ FdrIdle /\ PoolIdle /\ RunIdle
    /\ RsIdle /\ TtIdle /\ PhIdle /\ GsIdle

\* worker: data = input.get(), up to the call of
\* enrichments_for_permuted_labels(gene_set); an empty queue stands for STOP
PermuteTake(w) ==
    /\ pm_pc[w] = "get"
    /\ pm_queue # <<>>
    /\ pm_task' = [pm_task EXCEPT ![w] = Head(pm_queue)]
    /\ pm_queue' = Tail(pm_queue)
    /\ pm_pc' = [pm_pc EXCEPT ![w] = "enter"]
    /\ UNCHANGED <<pm_class, pm_permutations, pm_gene_sets, pm_round, pm_es_null,
                   pm_target, pm_set_calls, pm_samples, pm_used, pm_returned>>
    /\ UNCHANGED <<sd_vars, es_vars, an_vars, fdr_vars, pool_vars, run_vars,
                   rs_vars, tt_vars, ph_vars, gs_vars>>

\* es_null = ScoreDistribution(); shuffler = self.shuffler;
\* shuffler.set_gene_set(gene_set)
PermuteSetTarget(w) ==
    /\ pm_pc[w] = "enter"
    /\ pm_es_null' = [pm_es_null EXCEPT ![w] = EmptyDistribution]
    /\ pm_target' = [pm_target EXCEPT ![ShufflerOf(w)] = pm_task[w]]
    /\ pm_set_calls' = [pm_set_calls EXCEPT ![pm_task[w]] = @ + 1]
    /\ pm_round' = [pm_round EXCEPT ![w] = 0]
    /\ pm_pc' = [pm_pc EXCEPT ![w] = "loop"]
    /\ UNCHANGED <<pm_class, pm_permutations, pm_gene_sets, pm_queue, pm_task,
                   pm_samples, pm_used, pm_returned>>
    /\ UNCHANGED <<sd_vars, es_vars, an_vars, fdr_vars, pool_vars, run_vars,
                   rs_vars, tt_vars, ph_vars, gs_vars>>

\* one round of the loop: score = shuffler.permute_and_score();
\* es_null.append(score).  The score is that of shuffler.gene_set; with
\* PhenotypeShuffler the call raises (shuffle_and_divide) and the process ends.
PermuteSample(w) ==
    /\ pm_pc[w] = "loop"
    /\ pm_round[w] < pm_permutations
    /\ pm_samples' = [pm_samples EXCEPT ![pm_task[w]] = @ + 1]
    /\ IF pm_class = "phenotypes"
       THEN /\ pm_pc' = [pm_pc EXCEPT ![w] = "crashed"]
            /\ UNCHANGED <<pm_es_null, pm_round, pm_used>>
       ELSE /\ \E labels_map \in LabelMaps(PermuteExperiment), zero_to \in {"positive", "negative"} :
                  LET score == permute_and_score(PermuteExperiment, PermuteConfig,
                                                 pm_gene_sets[pm_target[ShufflerOf(w)]],
                                                 labels_map)
                  IN  pm_es_null' = [pm_es_null EXCEPT ![w] = DistAppend(@, score.value, zero_to)]
            /\ pm_used' = [pm_used EXCEPT ![pm_task[w]] = Append(@, pm_target[ShufflerOf(w)])]
            /\ pm_round' = [pm_round EXCEPT ![w] = @ + 1]
            /\ UNCHANGED pm_pc
    /\ UNCHANGED <<pm_class, pm_permutations, pm_gene_sets, pm_queue, pm_task,
                   pm_target, pm_set_calls, pm_returned>>
    /\ UNCHANGED <<sd_vars, es_vars, an_vars, fdr_vars, pool_vars, run_vars,
                   rs_vars, tt_vars, ph_vars, gs_vars>>

\* the loop is over: return es_null
PermuteReturn(w) ==
    /\ pm_pc[w] = "loop"
    /\ pm_round[w] = pm_permutations
    /\ pm_returned' = [pm_returned EXCEPT ![pm_task[w]] = pm_es_null[w]]
    /\ pm_pc' = [pm_pc EXCEPT ![w] = "get"]
    /\ UNCHANGED <<pm_class, pm_permutations, pm_gene_sets, pm_queue, pm_task,
                   pm_round, pm_es_null, pm_target, pm_set_calls, pm_samples, pm_used>>
    /\ UNCHANGED <<sd_vars, es_vars, an_vars, fdr_vars, pool_vars, run_vars,
                   rs_vars, tt_vars, ph_vars, gs_vars>>

NextPermute ==
    \/ \E w \in PermuteWorkers : PermuteTake(w)
    \/ \E w \in PermuteWorkers : PermuteSetTarget(w)
    \/ \E w \in PermuteWorkers : PermuteSample(w)
    \/ \E w \in PermuteWorkers : PermuteReturn(w)

SpecPermute == InitPermute /\ [][NextPermute]_vars

---------------------------------------------------------------------------
\* Properties.  The counts below are written from the statements checked, not
\* from the operators above.

\* |x| > |y|
Exceeds(x, y) == Abs(x[1]) * y[2] > Abs(y[1]) * x[2]

\* the places <<set, bucket, index>> of the null scores of the sets H
ScorePlaces(sets, H) ==
    UNION {{<<h, "negative", k>> : k \in DOMAIN sets[h].null_distribution.negative_scores}
           \cup {<<h, "positive", k>> : k \in DOMAIN sets[h].null_distribution.positive_scores} :
           h \in H}

ScoreAt(sets, place) ==
    IF place[2] = "negative"
    THEN sets[place[1]].null_distribution.negative_scores[place[3]]
    ELSE sets[place[1]].null_distribution.positive_scores[place[3]]

\* number of scores of the null distributions of the sets H that exceed the
\* enrichment of set g
RandomExceeding(sets, g, H) ==
    Cardinality({place \in ScorePlaces(sets, H) :
                    Exceeds(ScoreAt(sets, place), sets[g].enrichment)})

\* number of scores of the null distributions of the sets H
RandomTotal(sets, H) == Cardinality(ScorePlaces(sets, H))

\* number of sets other than g whose enrichment exceeds that of g
ObservedExceeding(sets, g) ==
    Cardinality({h \in DOMAIN sets : h # g /\ Exceeds(sets[h].enrichment, sets[g].enrichment)})

\* C1: when func raises on no item, the pool returns, for every process
\* count, the set of the values func(item, *shared_args) of the items.
C1_SameResultSet ==
    (pool_pc = "returned" /\ target = "func"
        /\ \A k \in DOMAIN iterable : ~func[iterable[k]].raises)
        => Range(results) = {func[iterable[k]].value : k \in DOMAIN iterable}

\* C2: with more than one process the pool returns only after every worker
\* has read exactly one STOP, has exited and has been joined, with the task
\* queue empty.
C2_EveryWorkerReadsItsStop ==
    (pool_pc = "returned" /\ processes # 1)
        => /\ \A w \in Workers : w_stops[w] = 1 /\ w_pc[w] = "exited"
           /\ joined = Workers
           /\ queue = <<>>

\* C3: once the pool has returned, every task dispatched (none of them a
\* falsy item) has a result in the list or a reported failure.
C3_ResultOrReportedFailure ==
    (pool_pc = "returned" /\ processes # 1
        /\ \A k \in DOMAIN iterable : ~Falsy(iterable[k]))
        => \A k \in DOMAIN iterable :
               k \in Range(completed) \/ k \in ReportedFailures

\* C4: compute_fdr is reached only when the analysis of every gene set that
\* survived trimming has completed and its result has been collected.
C4_FdrAfterEveryAnalysis ==
    run_pc = "compute_fdr"
        => \A k \in DOMAIN trimmed :
               /\ k \in Range(completed)
               /\ \E r \in DOMAIN results :
                      /\ results[r].name = gene_sets[trimmed[k]].name
                      /\ results[r].enrichment # None

\* C5: calculate_enrichment_score with nh = 0 or nh = n raises and never
\* returns a score.
C5_DegenerateSetRaises ==
    (es_pc # "ready" /\ SetLen(es_gene_set) \in {0, Len(es_ranked_list)})
        => es_pc = "raised"

C7_NoRandomExceedingGivesZero ==
    fdr_pc # "ready" =>
        \A g \in DOMAIN fdr_sets :
            RandomExceeding(fdr_sets, g, DOMAIN fdr_sets \ {g}) = 0
                => (g \in fdr_assigned /\ fdr_sets[g].fdr = Zero)

\* a collection of one set (nothing observed, nothing random), FDR 0
C7_Witness ==
    /\ fdr_pc = "returned"
    /\ Len(fdr_sets) = 1
    /\ fdr_sets[1].null_distribution # EmptyDistribution
    /\ ObservedExceeding(fdr_sets, 1) = 0
    /\ fdr_sets[1].fdr = Zero

C9_StoredNullIsNormalized ==
    (an_pc = "returned" /\ an_normalize_es) =>
        \E zero_to \in [1..DistLen(an_null) -> {"positive", "negative"}] :
            an_gene_set.null_distribution =
                normalize_enrichment(TRUE, an_score, an_null, zero_to).value[2]

\* C10: the nominal p-value is the share of the like-signed bucket whose
\* scores exceed the observed score, 0 for an empty bucket, and lies in [0, 1].
C10_SignificanceLevel ==
    an_pc # "significance" =>
        LET bucket == IF an_score[1] > 0 THEN an_null.positive_scores
                      ELSE an_null.negative_scores
            count == Cardinality({k \in DOMAIN bucket : Exceeds(bucket[k], an_score)})
        IN  /\ bucket = <<>> => an_p = Zero
            /\ bucket # <<>> => an_p = Rat(count, Len(bucket))
            /\ an_p[1] >= 0 /\ an_p[2] > 0 /\ an_p[1] <= an_p[2]

\* a p-value strictly between 0 and 1 taken from the negative bucket
C10_Witness ==
    /\ an_pc = "normalize"
    /\ ~(an_score[1] > 0)
    /\ Len(an_null.negative_scores) = 2
    /\ an_p = Rat(1, 2)

\* the sum of the scores of a bucket as an unreduced fraction <<n, d>>
RECURSIVE BucketTotal(_)
BucketTotal(bucket) ==
    IF bucket = <<>> THEN <<0, 1>>
    ELSE LET t == BucketTotal(Tail(bucket))
         IN  <<bucket[1][1] * t[2] + t[1] * bucket[1][2], bucket[1][2] * t[2]>>

\* v is x divided by the mean, or by the absolute value of the mean, of the
\* non-empty bucket (the mean not being zero)
IsQuotientByMean(v, x, bucket, absolute) ==
    LET t == BucketTotal(bucket)
        m == IF absolute THEN Abs(t[1]) ELSE t[1]
    IN  /\ bucket # <<>> /\ m # 0 /\ v[2] # 0
        /\ v[1] * x[2] * m = x[1] * t[2] * Len(bucket) * v[2]

\* v is what the statement of C11 maps the member x of D (or E) to
IsNormalizedValueOf(v, x, D) ==
    IF x[1] > 0 THEN IsQuotientByMean(v, x, D.positive_scores, FALSE)
    ELSE IF x[1] < 0 THEN IsQuotientByMean(v, x, D.negative_scores, TRUE)
    ELSE v[1] = 0 /\ v[2] # 0

\* the mean that x is to be divided by exists and is not zero
HasUsableMean(x, D) ==
    /\ x[1] > 0 => (D.positive_scores # <<>> /\ BucketTotal(D.positive_scores)[1] # 0)
    /\ x[1] < 0 => (D.negative_scores # <<>> /\ BucketTotal(D.negative_scores)[1] # 0)

\* C11: when normalize_enrichment returns, with normalize_es False it returns
\* E and D themselves; otherwise E (where its mean exists and is not zero) is
\* mapped to E / mean(D.positive) when positive, E / |mean(D.negative)| when
\* negative and 0 when zero, and the scores of the distribution returned are,
\* as a multiset, the scores of D mapped in the same way.
C11_NormalizedByBucketMean ==
    an_pc = "returned" =>
        IF ~an_normalize_es
        THEN an_norm.value = <<an_score, an_null>>
        ELSE LET out == an_norm.value[2].negative_scores \o an_norm.value[2].positive_scores
                 in == an_null.negative_scores \o an_null.positive_scores
             IN  /\ HasUsableMean(an_score, an_null)
                     => IsNormalizedValueOf(an_norm.value[1], an_score, an_null)
                 /\ Len(out) = Len(in)
                 /\ \A j \in DOMAIN out :
                        Cardinality({k \in DOMAIN out : out[k] = out[j]})
                            = Cardinality({i \in DOMAIN in :
                                              IsNormalizedValueOf(out[j], in[i], an_null)})

\* C11 witness: a negative score was normalized by the mean of two negative
\* null scores to a different value.
C11_Witness ==
    /\ an_pc = "returned" /\ an_normalize_es
    /\ an_score[1] < 0
    /\ Len(an_null.negative_scores) = 2
    /\ \A i \in DOMAIN an_null.negative_scores : an_null.negative_scores[i][1] < 0
    /\ an_norm.value[1] # an_score
    /\ an_norm.value[2] # an_null

\* C12: with normalize_es set, a score whose tail of the null distribution
\* has no usable mean (E > 0 and no positive score; E < 0 and no negative
\* score or a zero mean of the negative scores) does not make
\* normalize_enrichment raise: the call returns.
C12_NoCrashWithoutMean ==
    (an_pc \in {"returned", "raised"} /\ an_normalize_es
        /\ \/ an_score[1] > 0 /\ an_null.positive_scores = <<>>
           \/ an_score[1] < 0 /\ an_null.negative_scores = <<>>
           \/ an_score[1] < 0 /\ BucketTotal(an_null.negative_scores)[1] = 0)
        => an_pc = "returned"

\* every gene of the set that is in the ranked list has rank exactly 0
AllInSetRanksZero(ranked, genes) ==
    \A i \in DOMAIN ranked : ranked[i][1] \in genes => ranked[i][2] = 0

C14_NothingDoneBeforeUniverseError ==
    (run_pc = "raised"
        /\ Range(experiment.case_genes) # Range(experiment.control_genes))
        => /\ gene_sets = loaded_gene_sets
           /\ shuffler = <<>>
           /\ pool_pc = "idle" /\ iterable = <<>> /\ queue = <<>>

\* C16: the list run returns holds every gene set that survived trimming
\* exactly once and is in ascending order of enrichment.
C16_ReturnedListCompleteAndSorted ==
    run_pc = "returned" =>
        /\ \A k \in DOMAIN trimmed :
               Cardinality({r \in DOMAIN sorted_gene_sets :
                               sorted_gene_sets[r].name = gene_sets[trimmed[k]].name}) = 1
        /\ Len(sorted_gene_sets) = Len(trimmed)
        /\ \A r \in 1..(Len(sorted_gene_sets) - 1) :
               LET a == sorted_gene_sets[r].enrichment
                   b == sorted_gene_sets[r + 1].enrichment
               IN  a[1] * b[2] <= b[1] * a[2]

\* C15: after trim_gene_sets, the list returned holds, in input order and
\* once each, exactly the gene sets whose number of genes within the
\* dataset lies in [min_genes, max_genes], and each of them holds its genes
\* of the dataset and no other.
C15_TrimKeepsSetsWithinLimits ==
    run_pc \notin {"idle", "trim"} =>
        LET universe == {experiment.case_genes[i] : i \in DOMAIN experiment.case_genes}
            size(i) == Cardinality(loaded_gene_sets[i].genes \cap universe)
        IN  /\ \A k \in DOMAIN trimmed : \A j \in DOMAIN trimmed :
                   k < j => trimmed[k] < trimmed[j]
            /\ {trimmed[k] : k \in DOMAIN trimmed}
                   = {i \in DOMAIN loaded_gene_sets :
                         /\ config.min_max[1] <= size(i)
                         /\ size(i) <= config.min_max[2]}
            /\ \A k \in DOMAIN trimmed :
                   /\ gene_sets[trimmed[k]].name = loaded_gene_sets[trimmed[k]].name
                   /\ gene_sets[trimmed[k]].genes
                          = loaded_gene_sets[trimmed[k]].genes \cap universe

\* C15 witness: of two gene sets the first was dropped as too small and the
\* second, of exactly max_genes genes after losing one, was kept.
C15_Witness ==
    /\ run_pc = "rank" /\ Len(loaded_gene_sets) = 2
    /\ trimmed = <<2>>
    /\ Cardinality(gene_sets[1].genes) < config.min_max[1]
    /\ Cardinality(gene_sets[2].genes) = config.min_max[2]
    /\ gene_sets[2].genes # loaded_gene_sets[2].genes

\* how many times the score v occurs in a list
Occurrences(list, v) == Cardinality({i \in DOMAIN list : list[i] = v})

\* C18: a ScoreDistribution built from a list and iterated yields every
\* score as often as the list holds it; a strictly positive score is only in
\* positive_scores, a strictly negative one only in negative_scores, each
\* zero is in one of the two; len() is the length of the list.
C18_DistributionKeepsScores ==
    sd_pc = "iterated" =>
        /\ Len(sd_out) = Len(sd_scores)
        /\ sd_len = Len(sd_scores)
        /\ \A i \in DOMAIN sd_scores :
               LET v == sd_scores[i]
                   inpos == Occurrences(sd_dist.positive_scores, v)
                   inneg == Occurrences(sd_dist.negative_scores, v)
               IN  /\ Occurrences(sd_out, v) = Occurrences(sd_scores, v)
                   /\ inpos + inneg = Occurrences(sd_scores, v)
                   /\ v[1] > 0 => inneg = 0
                   /\ v[1] < 0 => inpos = 0

\* C18 witness: a list with a positive score, a negative score and a zero
\* was built and iterated, the zero having gone to the positive bucket.
C18_Witness ==
    /\ sd_pc = "iterated" /\ Len(sd_scores) = 3
    /\ \E i, j, k \in DOMAIN sd_scores :
          sd_scores[i][1] > 0 /\ sd_scores[j][1] < 0 /\ sd_scores[k][1] = 0
    /\ Len(sd_dist.positive_scores) = 2

\* C19: the list create_ranked_gene_list returns holds, for every gene of the
\* universe, exactly one pair, made of the gene and its metric value, and
\* nothing else; the values are in descending order when descending_sort is
\* set and in ascending order when it is not.
C19_RankedListSortedByMetric ==
    run_pc = "shuffler" =>
        LET universe == {experiment.case_genes[i] : i \in DOMAIN experiment.case_genes}
            list == run_ranked_list
        IN  /\ Len(list) = Cardinality(universe)
            /\ \A gene \in universe :
                   /\ Cardinality({i \in DOMAIN list : list[i][1] = gene}) = 1
                   /\ \A i \in DOMAIN list :
                          list[i][1] = gene => list[i][2] = experiment.metric[gene]
            /\ \A i \in 1..(Len(list) - 1) :
                   IF config.descending_sort
                   THEN list[i][2] >= list[i + 1][2]
                   ELSE list[i][2] <= list[i + 1][2]

\* C19 witness: three genes of distinct metric values, not given in
\* ascending order, were ranked in ascending order.
C19_Witness ==
    /\ run_pc = "shuffler" /\ ~config.descending_sort
    /\ Len(run_ranked_list) = 3
    /\ run_ranked_list[1][2] < run_ranked_list[2][2]
    /\ run_ranked_list[2][2] < run_ranked_list[3][2]
    /\ experiment.metric[experiment.case_genes[1]]
           > experiment.metric[experiment.case_genes[2]]

\* the positions of the genes of a set in a ranked list
PositionsOf(ranked, genes) == {i \in DOMAIN ranked : ranked[i][1] \in genes}

\* nh positions spread evenly over 1..n: the middle of each of nh equal
\* stretches of the list, rounded up
SpreadPositions(n, nh) ==
    {((2 * k - 1) * n + 2 * nh - 1) \div (2 * nh) : k \in 1..nh}

\* C20: a gene set of nh genes (0 < nh < n) that fills the top or the bottom
\* of the ranked list is scored strictly further from zero than the gene set
\* of nh genes spread evenly over the list.
C20_ConcentratedBeatsSpread ==
    LET n == Len(es_ranked_list)
        nh == Cardinality(es_gene_set.genes)
        at == PositionsOf(es_ranked_list, es_gene_set.genes)
        spread == SpreadPositions(n, nh)
        other == calculate_enrichment_score(
                     es_ranked_list,
                     GeneSet("S", {es_ranked_list[i][1] : i \in spread}),
                     es_weight)
    IN  (es_pc = "returned" /\ 0 < nh /\ nh < n
            /\ at \in {1..nh, (n - nh + 1)..n}
            /\ spread \notin {1..nh, (n - nh + 1)..n}
            /\ other.exc = "")
            => Abs(es_result.value[1]) * other.value[2]
                   > Abs(other.value[1]) * es_result.value[2]

\* the sum of rank^p over the genes of the set among the first i of the list
RECURSIVE StatedHitSum(_, _, _, _)
StatedHitSum(ranked, genes, p, i) ==
    IF i = 0 THEN 0
    ELSE StatedHitSum(ranked, genes, p, i - 1)
         + (IF ranked[i][1] \in genes THEN Pow(ranked[i][2], p) ELSE 0)

\* the sum of |rank^p| over the genes of the set among the first i of the list
RECURSIVE StatedHitDenominator(_, _, _, _)
StatedHitDenominator(ranked, genes, p, i) ==
    IF i = 0 THEN 0
    ELSE StatedHitDenominator(ranked, genes, p, i - 1)
         + (IF ranked[i][1] \in genes THEN Abs(Pow(ranked[i][2], p)) ELSE 0)

\* diff after step i as the statement of C21 gives it, times
\* hit_denominator * (n - nh):  hits / hit_denominator - misses / (n - nh)
StatedDiff(ranked, genes, p, i) ==
    LET n == Len(ranked)
        hd == StatedHitDenominator(ranked, genes, p, n)
        m == n - Cardinality(genes)
        misses == Cardinality({j \in 1..i : ranked[j][1] \notin genes})
    IN  StatedHitSum(ranked, genes, p, i) * m - misses * hd

\* C21: a score returned from the walk is the diff (running hit sum minus
\* running miss sum) of largest absolute value among the steps; when every
\* in-set rank is positive the diff after the last step is 0 and |score| <= 1.
C21_ScoreIsExtremeOfHitsMinusMisses ==
    (es_pc = "returned" /\ ~es_result.warned) =>
        LET n == Len(es_ranked_list)
            genes == es_gene_set.genes
            scale == StatedHitDenominator(es_ranked_list, genes, es_weight, n)
                         * (n - Cardinality(genes))
            score == es_result.value
        IN  /\ \E i \in 1..n :
                   /\ score[1] * scale
                          = StatedDiff(es_ranked_list, genes, es_weight, i) * score[2]
                   /\ \A j \in 1..n :
                          Abs(StatedDiff(es_ranked_list, genes, es_weight, j))
                              <= Abs(StatedDiff(es_ranked_list, genes, es_weight, i))
            /\ (\A i \in 1..n : es_ranked_list[i][1] \in genes => es_ranked_list[i][2] > 0)
                   => /\ StatedDiff(es_ranked_list, genes, es_weight, n) = 0
                      /\ Abs(score[1]) <= score[2]

\* the increments put on the progress queue so far: those the bar has counted
\* and those still queued
IncrementsPut ==
    bar_n + Cardinality({k \in DOMAIN progress_queue : ~progress_queue[k].stop})

\* C22: a single worker that has read the items i1..ik and then STOP (func
\* raising on none of them) has left in the output list func(item, *args) of
\* every item, falsy items included, in the order of the queue, has put one
\* progress increment per item, and has returned.
C22_WorkerAppliesFuncToEveryItem ==
    (target = "func" /\ processes # 1 /\ processes_cnt = 1 /\ w_stops[1] = 1
        /\ \A k \in DOMAIN iterable : ~func[iterable[k]].raises)
        => /\ results = [k \in DOMAIN iterable |-> func[iterable[k]].value]
           /\ IncrementsPut = Len(iterable)
           /\ w_pc[1] = "exited"

\* the per-run annotations of a GeneSet object that analysis is about
Unannotated(gene_set) ==
    /\ gene_set.enrichment = <<>>
    /\ gene_set.nominal_p_value = <<>>
    /\ gene_set.null_distribution = <<>>

\* C27: while the tasks are with the pool (before run collects the results)
\* no GeneSet object, neither one of the database nor the copy a worker
\* holds, has had its enrichment, nominal_p_value or null_distribution
\* written.
C27_TaskWritesNoGeneSetField ==
    run_pc = "pool" =>
        /\ \A i \in DOMAIN gene_sets : Unannotated(gene_sets[i])
        /\ \A w \in Workers : w_data[w] # <<>> => Unannotated(w_data[w])

\* 'STOP' has been put on the progress queue
ProgressStopSent ==
    bar_pc = "exited" \/ \E k \in DOMAIN progress_queue : progress_queue[k].stop

\* C29: with processes other than 1, STOP is on the progress queue only once
\* every worker has been joined, nothing follows it on the queue, the
\* increments sent before it are one per completed task, the progress
\* process ends once STOP was sent, and the pool returns only after it ended.
C29_ProgressStoppedAfterJoins ==
    /\ [](processes # 1 =>
             /\ ProgressStopSent =>
                    /\ joined = Workers
                    /\ IncrementsPut = Len(results)
                    /\ \A k \in DOMAIN progress_queue :
                           progress_queue[k].stop => k = Len(progress_queue)
             /\ pool_pc = "returned" => bar_pc = "exited")
    /\ ((processes # 1 /\ ProgressStopSent) ~> (bar_pc = "exited"))

\* C29 witness: two workers completed one task each, both increments were
\* counted, the progress process ended and the pool returned.
C29_Witness ==
    /\ pool_pc = "returned" /\ processes # 1 /\ Cardinality(Workers) = 2
    /\ Len(results) = 2 /\ bar_n = 2 /\ bar_pc = "exited"
    /\ \E a, b \in DOMAIN completed : a # b /\ completed[a] # completed[b]

\* C28: after every call of restrict_to_genes(universe) the genes of the set
\* are the genes it had before that are in the universe, the set returned is
\* the genes it had before that are not, no gene is in the set that was not
\* there when it was made, and `gene in gene_set` is true exactly of the
\* genes of the set (gene_ids is the set of their ids).
C28_RestrictOnlyRemoves ==
    rs_pc = "restricted" =>
        /\ rs_gene_set.genes = rs_before.genes \cap rs_universe
        /\ rs_removed = rs_before.genes \ rs_universe
        /\ rs_gene_set.genes \subseteq rs_created.genes
        /\ \A gene \in 1..(MaxRestrictGenes + 1) :
               Contains(rs_gene_set, gene) <=> gene \in rs_gene_set.genes
        /\ rs_gene_set.gene_ids = {GeneId(gene) : gene \in rs_gene_set.genes}

\* C28 witness: a second call removed one more gene from a set that the
\* first call had already reduced, and a gene is left.
C28_Witness ==
    /\ rs_pc = "restricted" /\ rs_calls = 2
    /\ rs_before.genes # rs_created.genes
    /\ Cardinality(rs_removed) = 1
    /\ rs_gene_set.genes # {}
    /\ \E gene \in rs_removed : ~Contains(rs_gene_set, gene)

\* C30: neither call of trim_gene_sets raises; the second call removes no
\* gene from any gene set and returns the gene sets the first call returned,
\* in the same order.
C30_TrimIsIdempotent ==
    /\ tt_pc # "raised"
    /\ tt_pc = "second" =>
          /\ tt_removed = {}
          /\ tt_gene_sets = tt_after_first
          /\ tt_second = tt_first

\* C30 witness: the first call removed a gene from the first gene set, kept
\* it and dropped the second one; the second call has returned.
C30_Witness ==
    /\ tt_pc = "second" /\ Len(tt_loaded) = 2
    /\ tt_first = <<1>>
    /\ tt_after_first[1].genes # tt_loaded[1].genes
    /\ tt_second = <<1>>

\* C23: a permutation of PhenotypeShuffler ends with a random case group of
\* as many samples as the case has and a random control group of the other
\* samples: no sample is in both and every merged sample is in one of them
\* exactly once.
C23_PhenotypeSplitIsPartition ==
    ph_pc \in {"returned", "raised"} =>
        /\ ph_pc = "returned"
        /\ LET random_case == ph_result.value[1]
               random_control == ph_result.value[2]
               both == random_case \o random_control
           IN  /\ Len(random_case) = Len(ph_case)
               /\ Range(random_case) \cap Range(random_control) = {}
               /\ \A sample \in Range(ph_case) \cup Range(ph_control) :
                      Cardinality({i \in DOMAIN both : both[i] = sample}) = 1
               /\ Len(both) = Len(ph_case) + Len(ph_control)

\* C24: after every permute_and_score of a GeneShuffler the label map is a
\* one-to-one map of the genes of the experiment onto themselves,
\* gene_labels is as it was made, and the permuted ranked list holds every
\* gene exactly once and, place by place, the metric values of the real
\* ranked list.
C24_LabelMapIsBijection ==
    /\ gs_pc # "raised"
    /\ gs_pc = "permuted" =>
          LET universe == {gs_experiment.case_genes[i] : i \in DOMAIN gs_experiment.case_genes}
          IN  /\ DOMAIN gs_labels_map = universe
              /\ {gs_labels_map[gene] : gene \in universe} = universe
              /\ \A a, b \in universe : gs_labels_map[a] = gs_labels_map[b] => a = b
              /\ gs_gene_labels = gs_experiment.control_genes
              /\ \A gene \in universe :
                     Cardinality({i \in DOMAIN gs_ranked : gs_ranked[i][1] = gene}) = 1
              /\ Len(gs_ranked) = Len(gs_real)
              /\ \A i \in DOMAIN gs_ranked : gs_ranked[i][2] = gs_real[i][2]

\* C24 witness: after a second call the labels of three genes of distinct
\* metric values are all moved.
C24_Witness ==
    /\ gs_pc = "permuted" /\ gs_calls = 2 /\ Len(gs_real) = 3
    /\ gs_real[1][2] # gs_real[2][2] /\ gs_real[2][2] # gs_real[3][2]
    /\ \A i \in DOMAIN gs_ranked : gs_ranked[i][1] # gs_real[i][1]
    /\ gs_permutation # gs_gene_labels

\* C25: for every gene set g, whatever the workers' order of steps,
\* set_gene_set(g) has been called exactly once by the time g's loop runs or
\* is over, and every score put in g's null distribution is the score of g.
C25_TargetStableDuringLoop ==
    \A g \in DOMAIN pm_gene_sets :
        /\ pm_set_calls[g] <= 1
        /\ (\/ pm_returned[g] # <<>>
            \/ \E w \in DOMAIN pm_pc : pm_task[w] = g /\ pm_pc[w] \in {"loop", "crashed"})
               => pm_set_calls[g] = 1
        /\ \A k \in DOMAIN pm_used[g] : pm_used[g][k] = g

\* C25 witness: two workers were in the loops of two different gene sets at
\* the same time and both null distributions have been returned with scores.
C25_Witness ==
    /\ Len(pm_gene_sets) = 2 /\ Len(pm_pc) = 2
    /\ pm_gene_sets[1].genes # pm_gene_sets[2].genes
    /\ pm_task[1] # pm_task[2] /\ pm_task[1] # 0 /\ pm_task[2] # 0
    /\ pm_returned[1] # <<>> /\ pm_returned[2] # <<>>
    /\ Len(pm_used[1]) = 2 /\ Len(pm_used[2]) = 2

\* C26: enrichments_for_permuted_labels does not fail, and for every gene
\* set it has returned for it has called permute_and_score exactly
\* `permutations` times and returned a distribution of `permutations` scores.
C26_ExactlyPermutationsSamples ==
    /\ \A w \in DOMAIN pm_pc : pm_pc[w] # "crashed"
    /\ \A g \in DOMAIN pm_gene_sets :
           /\ pm_samples[g] <= pm_permutations
           /\ pm_returned[g] # <<>> =>
                  /\ pm_samples[g] = pm_permutations
                  /\ Len(pm_returned[g].negative_scores)
                         + Len(pm_returned[g].positive_scores) = pm_permutations

===========================================================================
